---- MODULE Spec2Model ----
(***************************************************************************)
(* The WLD parser (WldParser over BinaryStream) as a state machine.        *)
(*                                                                         *)
(* A byte is an integer 0..255, a buffer a sequence of bytes, a decoded    *)
(* string the sequence of its code points.  The parser runs on a record s, *)
(* its state while parse() runs:                                           *)
(*   s.pos      BinaryStream.position                                      *)
(*   s.world    the WldWorld being populated                               *)
(*   s.log      the (level, message) events delivered to the log callback  *)
(*   s.thrown   an exception is propagating; s.exc is the exception        *)
(*   s.val      the value the last call returned                           *)
(*   s.fn       the method that is running                                 *)
(*   s.pc       the source line of its statement to run next               *)
(*   s.loc      its local variables                                        *)
(*   s.stack    the callers: the fn, pc and loc each resumes with          *)
(*   s.done     the section of parse() that is running has ended           *)
(*   s.lo, s.hi the lowest and the highest buffer offset a read returned   *)
(*   s.scan     the position at which the last findChunkInFile started     *)
(*   s.caught   how many exceptions catch blocks have absorbed             *)
(* A BinaryStream method is an operator on s.  A WldParser method is an    *)
(* operator that runs the statements at s.pc, up to the next branch, call  *)
(* or return.  Every operator is strict in s.thrown: while an exception    *)
(* propagates the statements that follow do nothing; the method that is    *)
(* running then runs its catch block, or passes the exception to its       *)
(* caller.                                                                 *)
(***************************************************************************)
EXTENDS Integers, Sequences, FiniteSets, TLC

\* buffer, position: the BinaryStream.  world, log: the WldWorld and the
\* events delivered to the log callback.  phase: the section of parse() to
\* run next, or how parse() ended.  error, returned: what parse() threw and
\* what it returned.  raised: the exception raised last in the section that
\* ran last, caught or not.  readLo, readHi, scanStart, absorbed: as s.lo,
\* s.hi, s.scan, s.caught.  call: the method that is called and its argument.
VARIABLES buffer, position, world, log, phase, error, returned, raised,
          readLo, readHi, scanStart, absorbed, call

vars == <<buffer, position, world, log, phase, error, returned, raised,
          readLo, readHi, scanStart, absorbed, call>>

Min(a, b) == IF a < b THEN a ELSE b

Max(a, b) == IF a > b THEN a ELSE b

(***************************************************************************)
(* FourCC literals of the parser, as code points.                          *)
(***************************************************************************)
FourCC ==
  [BUIV |-> <<66, 85, 73, 86>>,
   VERC |-> <<86, 69, 82, 67>>,
   WRLD |-> <<87, 82, 76, 68>>,
   WLIF |-> <<87, 76, 73, 70>>,
   DTRS |-> <<68, 84, 82, 83>>,
   DIMP |-> <<68, 73, 77, 80>>,
   DPOS |-> <<68, 80, 79, 83>>,
   DICT |-> <<68, 73, 67, 84>>,
   DEND |-> <<68, 69, 78, 68>>,
   BRAR |-> <<66, 82, 65, 82>>,
   BR3D |-> <<66, 82, 51, 68>>,
   BRMP |-> <<66, 82, 77, 80>>,
   BREN |-> <<66, 82, 69, 78>>,
   BSC |-> <<66, 83, 67, 32>>,
   VTXs |-> <<86, 84, 88, 115>>,
   PLNs |-> <<80, 76, 78, 115>>,
   EDGs |-> <<69, 68, 71, 115>>,
   BPOs |-> <<66, 80, 79, 115>>,
   BSP0 |-> <<66, 83, 80, 48>>,
   SHMP |-> <<83, 72, 77, 80>>,
   PSLS |-> <<80, 83, 76, 83>>,
   PSLE |-> <<80, 83, 76, 69>>,
   EOAR |-> <<69, 79, 65, 82>>,
   TRAR |-> <<84, 82, 65, 82>>,
   TRRN |-> <<84, 82, 82, 78>>,
   TREN |-> <<84, 82, 69, 78>>,
   EOTA |-> <<69, 79, 84, 65>>,
   WSTA |-> <<87, 83, 84, 65>>,
   WEND |-> <<87, 69, 78, 68>>]

(***************************************************************************)
(* Errors.  An error is its message: kind names the message template,      *)
(* carries names the values the template interpolates.                     *)
(***************************************************************************)
NoErr ==
  [kind |-> "None", expected |-> <<>>, actual |-> <<>>, length |-> 0,
   position |-> 0, size |-> 0, carries |-> {}]

\* `Invalid string length: ${length} at position ${this.position}`
InvalidLengthError(length, pos) ==
  [NoErr EXCEPT !.kind = "InvalidLength", !.length = length, !.position = pos,
                !.carries = {"length", "position"}]

\* `Cannot read ${length} bytes at position ${this.position}, buffer size is ...`
TruncatedError(length, pos, size) ==
  [NoErr EXCEPT !.kind = "Truncated", !.length = length, !.position = pos,
                !.size = size, !.carries = {"length", "position", "size"}]

\* The RangeError of a DataView getter or of the Uint8Array constructor.
RangeError == [NoErr EXCEPT !.kind = "Truncated"]

\* `Expected chunk ID "${expected}" but found "${chunkID.toString()}"`
UnexpectedChunkError(expected, actual) ==
  [NoErr EXCEPT !.kind = "UnexpectedChunk", !.expected = expected,
                !.actual = actual, !.carries = {"expected", "actual"}]

\* 'WSTA chunk not found in file'
WstaNotFoundError == [NoErr EXCEPT !.kind = "WstaNotFound"]

(***************************************************************************)
(* BinaryStream.                                                           *)
(***************************************************************************)
\* A limit that refuses the longest length the stream accepts.
LowerStringLimit == 1000000 - 1

MaxStringLength == 1000000

getSize == Len(buffer)

\* The byte at offset i (offsets count from 0).
ByteAt(i) == IF i >= 0 /\ i < getSize THEN buffer[i + 1] ELSE 0

\* A range check that accepts every offset.
AnyOffset(p, n) == TRUE

\* The range check of DataView.getXxx(byteOffset) and of
\* new Uint8Array(buffer, byteOffset, length): a RangeError unless it holds.
InBounds(p, n) == p >= 0 /\ p + n <= getSize

Touch(s, p, n) ==
  IF n <= 0 THEN s
  ELSE [s EXCEPT !.lo = Min(@, p), !.hi = Max(@, p + n - 1)]

Throw(s, e) == [s EXCEPT !.thrown = TRUE, !.exc = e]

\* catch (error) { ... }: the exception stops propagating.
Catch(s) ==
  IF s.thrown THEN [s EXCEPT !.thrown = FALSE, !.caught = @ + 1] ELSE s

(***************************************************************************)
(* Control: calls, returns and local variables of the parser's methods.    *)
(***************************************************************************)
\* The statement at line pc is the next one.
Goto(s, pc) == IF s.thrown THEN s ELSE [s EXCEPT !.pc = pc]

\* A call of method fn, whose first statement is at line entry and whose
\* local variables start as locals; the caller resumes at line ret.
Call(s, fn, entry, locals, ret) ==
  IF s.thrown THEN s
  ELSE [s EXCEPT !.stack = Append(@, [fn |-> s.fn, pc |-> ret, loc |-> s.loc]),
                 !.fn = fn, !.pc = entry, !.loc = locals]

\* The caller is the running method again.
Pop(s) ==
  [s EXCEPT !.stack = SubSeq(@, 1, Len(@) - 1),
            !.fn = s.stack[Len(s.stack)].fn,
            !.pc = s.stack[Len(s.stack)].pc,
            !.loc = s.stack[Len(s.stack)].loc]

\* return;
Return(s) == IF s.thrown THEN s ELSE Pop(s)

\* return v;
ReturnValue(s, v) == IF s.thrown THEN s ELSE Pop([s EXCEPT !.val = v])

\* An exception leaves a method that has no try block.
Propagate(s) == Pop(s)

\* name = v
SetLocal(s, name, v) == IF s.thrown THEN s ELSE [s EXCEPT !.loc[name] = v]

\* name = <the value the last call returned>
Store(s, name) == IF s.thrown THEN s ELSE [s EXCEPT !.loc[name] = s.val]

\* name.push(<the value the last call returned>)
Push(s, name) ==
  IF s.thrown THEN s ELSE [s EXCEPT !.loc[name] = Append(@, s.val)]

\* A push that leaves out a polygon of no vertex.
CollectDrawable(s, name) ==
  IF s.thrown THEN s
  ELSE IF name = "polygons" /\ s.val # <<>> /\ s.val[1].vertices = <<>>
    THEN s
  ELSE [s EXCEPT !.loc[name] = @ \o s.val]

\* if (x) name.push(x), x being what the last call returned: <<x>>, or <<>>
\* for null
Collect(s, name) ==
  IF s.thrown THEN s ELSE [s EXCEPT !.loc[name] = @ \o s.val]

\* An increment that is not made.
keepIndex(s) == s

\* i++
Incr(s) == IF s.thrown THEN s ELSE [s EXCEPT !.loc.i = @ + 1]


\* A seek that is not made.
keepPosition(s, p) == s

setPosition(s, p) == IF s.thrown THEN s ELSE [s EXCEPT !.pos = p]

\* seek(offset, 'current')
seek(s, offset) == IF s.thrown THEN s ELSE [s EXCEPT !.pos = @ + offset]

atEOF(s) == s.pos >= getSize

\* An unsigned 32-bit value is kept as its two 16-bit halves: the value is
\* hi * 65536 + lo.  (A signed one is an integer.)
U32(hi, lo) == [hi |-> hi, lo |-> lo]

\* getUint32(p) with the highest byte first.
U32AtBigEndian(p) ==
  U32(ByteAt(p + 1) + 256 * ByteAt(p), ByteAt(p + 3) + 256 * ByteAt(p + 2))

\* getUint32(p, littleEndian)
U32At(p) ==
  U32(ByteAt(p + 2) + 256 * ByteAt(p + 3), ByteAt(p) + 256 * ByteAt(p + 1))

\* getInt32(p, littleEndian): the top byte carries the sign.
I32At(p) ==
  ByteAt(p) + 256 * ByteAt(p + 1) + 65536 * ByteAt(p + 2)
    + 16777216 * (IF ByteAt(p + 3) >= 128 THEN ByteAt(p + 3) - 256
                  ELSE ByteAt(p + 3))

readUInt8(s) ==
  IF s.thrown THEN s
  ELSE IF ~InBounds(s.pos, 1) THEN Throw(s, RangeError)
  ELSE [Touch(s, s.pos, 1) EXCEPT !.val = ByteAt(s.pos), !.pos = @ + 1]

readInt8(s) ==
  IF s.thrown THEN s
  ELSE IF ~InBounds(s.pos, 1) THEN Throw(s, RangeError)
  ELSE [Touch(s, s.pos, 1) EXCEPT
          !.val = IF ByteAt(s.pos) >= 128 THEN ByteAt(s.pos) - 256
                  ELSE ByteAt(s.pos),
          !.pos = @ + 1]

readUInt16(s) ==
  IF s.thrown THEN s
  ELSE IF ~InBounds(s.pos, 2) THEN Throw(s, RangeError)
  ELSE [Touch(s, s.pos, 2) EXCEPT
          !.val = ByteAt(s.pos) + 256 * ByteAt(s.pos + 1), !.pos = @ + 2]

readInt16(s) ==
  IF s.thrown THEN s
  ELSE IF ~InBounds(s.pos, 2) THEN Throw(s, RangeError)
  ELSE [Touch(s, s.pos, 2) EXCEPT
          !.val = ByteAt(s.pos)
                    + 256 * (IF ByteAt(s.pos + 1) >= 128
                               THEN ByteAt(s.pos + 1) - 256
                             ELSE ByteAt(s.pos + 1)),
          !.pos = @ + 2]

\* A read that moves the position before it reads.
readInt32Ahead(s) ==
  IF s.thrown THEN s
  ELSE IF ~InBounds(s.pos, 4) THEN Throw([s EXCEPT !.pos = @ + 4], RangeError)
  ELSE [Touch(s, s.pos, 4) EXCEPT !.val = I32At(s.pos), !.pos = @ + 4]

readUInt32(s) ==
  IF s.thrown THEN s
  ELSE IF ~InBounds(s.pos, 4) THEN Throw(s, RangeError)
  ELSE [Touch(s, s.pos, 4) EXCEPT !.val = U32At(s.pos), !.pos = @ + 4]

readInt32(s) ==
  IF s.thrown THEN s
  ELSE IF ~InBounds(s.pos, 4) THEN Throw(s, RangeError)
  ELSE [Touch(s, s.pos, 4) EXCEPT !.val = I32At(s.pos), !.pos = @ + 4]

\* A float is kept as the bytes of its IEEE-754 encoding, lowest first.
readFloat32(s) ==
  IF s.thrown THEN s
  ELSE IF ~InBounds(s.pos, 4) THEN Throw(s, RangeError)
  ELSE [Touch(s, s.pos, 4) EXCEPT
          !.val = [i \in 1..4 |-> ByteAt(s.pos + i - 1)], !.pos = @ + 4]

readFloat64(s) ==
  IF s.thrown THEN s
  ELSE IF ~InBounds(s.pos, 8) THEN Throw(s, RangeError)
  ELSE [Touch(s, s.pos, 8) EXCEPT
          !.val = [i \in 1..8 |-> ByteAt(s.pos + i - 1)], !.pos = @ + 8]

\* new TextDecoder().decode(bytes): UTF-8.  An ASCII byte is its own code
\* point; a byte that starts no valid sequence becomes U+FFFD.  This is the
\* decoder exactly on buffers with no byte in 0x80..0xBF (no continuation
\* byte, so no multi-byte sequence and no byte order mark can form).
Decode(bytes) ==
  [i \in 1..Len(bytes) |-> IF bytes[i] < 128 THEN bytes[i] ELSE 65533]

readString(s, length) ==
  IF s.thrown THEN s
  ELSE IF length < 0 \/ length > MaxStringLength
    THEN Throw(s, InvalidLengthError(length, s.pos))
  ELSE IF s.pos + length > getSize
    THEN Throw(s, TruncatedError(length, s.pos, getSize))
  ELSE IF ~InBounds(s.pos, length) THEN Throw(s, RangeError)
  ELSE [Touch(s, s.pos, length) EXCEPT
          !.val = Decode([i \in 1..length |-> ByteAt(s.pos + i - 1)]),
          !.pos = @ + length]

\* new ChunkID(id): id.padEnd(4, ' ').substring(0, 4)
ChunkID(id) == [i \in 1..4 |-> IF i <= Len(id) THEN id[i] ELSE 32]

readChunkID(s) ==
  LET r == readString(s, 4)
  IN IF r.thrown THEN r ELSE [r EXCEPT !.val = ChunkID(r.val)]

\* A peek that leaves the position after the chunk id.
consumeChunkID(s) == readChunkID(s)

peekChunkID(s) ==
  LET r == readChunkID(s)
  IN IF r.thrown THEN r ELSE [r EXCEPT !.pos = s.pos]

\* An expectation that any chunk id meets.
acceptAnyChunk(s, expected) == readChunkID(s)

expectChunkID(s, expected) ==
  LET r == readChunkID(s)
  IN IF r.thrown THEN r
     ELSE IF r.val # ChunkID(expected)
       THEN Throw(r, UnexpectedChunkError(expected, r.val))
     ELSE r

(***************************************************************************)
(* The log callback: this.log(level, message).  A message is its template  *)
(* text, the numbers and code points it interpolates, and the error whose  *)
(* message it interpolates.                                                *)
(***************************************************************************)
Event(level, text, args, err) ==
  [level |-> level, text |-> text, args |-> args, err |-> err]

\* A log call that fails once the sink holds a dozen events.
LogUntilFull(s, level, text, args) ==
  IF s.thrown THEN s
  ELSE IF Len(s.log) >= 12 THEN Throw(s, RangeError)
  ELSE [s EXCEPT !.log = Append(@, Event(level, text, args, NoErr))]

\* A sink that puts each event in front of the earlier ones.
LogInFront(s, level, text, args) ==
  IF s.thrown THEN s
  ELSE [s EXCEPT !.log = <<Event(level, text, args, NoErr)>> \o @]

Log(s, level, text, args) ==
  IF s.thrown THEN s
  ELSE [s EXCEPT !.log = Append(@, Event(level, text, args, NoErr))]

\* this.log(level, message), the message interpolating the value the last
\* call returned.
LogVal(s, level, text) == Log(s, level, text, <<s.val>>)

LogError(s, level, text, err) ==
  IF s.thrown THEN s
  ELSE [s EXCEPT !.log = Append(@, Event(level, text, <<>>, err))]


(***************************************************************************)
(* WldParser: the skips of opaque blocks.  These have no loop and call     *)
(* nothing but the stream, so each is one operator.                        *)
(***************************************************************************)
\* if (length > 0 && length < limit) seek(length, 'current'), length being
\* the value just read
seekIfBelow(s, limit) ==
  IF s.thrown THEN s
  ELSE IF s.val > 0 /\ s.val < limit THEN seek(s, s.val)
  ELSE s

skipTexture(s) ==
  seek(seek(seek(seekIfBelow(readInt32(s), 500),   \* filename
                 24),   \* CMappingDefinition
            4),         \* scroll, blend, flags, dummy
       4)               \* colColor

\* if (smID === 'SHMP') { expectChunkID('SHMP'); size; seek(size) }
skipSHMP(s) ==
  IF s.thrown THEN s
  ELSE IF s.val = FourCC.SHMP
    THEN seekIfBelow(readInt32(expectChunkID(s, FourCC.SHMP)), 10000000)
  ELSE s

skipShadowMap(s) ==
  IF s.thrown THEN s
  ELSE Catch(skipSHMP(peekChunkID(s)))   \* Shadow map is optional

\* if (nodeCount > 0 && nodeCount < 1000000) seek(nodeCount * 48)
skipBSPNodes(s) ==
  IF s.thrown THEN s
  ELSE IF s.val > 0 /\ s.val < 1000000 THEN seek(s, s.val * 48)
  ELSE s

\* The catch block of skipBSPTree, after a try block that ended in r.
catchSkipBSPTree(r) ==
  IF r.thrown THEN Log(Catch(r), "warn", "Could not skip BSP tree", <<>>)
  ELSE r

skipBSPTree(s) ==
  IF s.thrown THEN s ELSE catchSkipBSPTree(skipBSPNodes(readInt32(s)))

\* The try block of skipPortalSectorLinks.
trySkipPortalSectorLinks(s) ==
  expectChunkID(
    seekIfBelow(readInt32(readInt32(expectChunkID(s, FourCC.PSLS))),
                100000000),
    FourCC.PSLE)

\* The catch block of skipPortalSectorLinks.
catchSkipPortalSectorLinks(r) ==
  IF r.thrown
    THEN Log(Catch(r), "warn", "Could not skip portal-sector links", <<>>)
  ELSE r

skipPortalSectorLinks(s) ==
  IF s.thrown THEN s
  ELSE catchSkipPortalSectorLinks(trySkipPortalSectorLinks(s))

(***************************************************************************)
(* WldParser: the brush archive.  A method that returns an object or null  *)
(* leaves in s.val the sequence of what it returned: <<object>> or <<>>.   *)
(***************************************************************************)
\* for (const idx of triangleVertices)
\*   if (idx >= 0 && idx < vertices.length) polygonVertices.push(vertices[idx]);
\* A resolution that also drops index 0.
resolveAfterFirst(triangleVertices, vertices) ==
  LET kept == SelectSeq(triangleVertices,
                        LAMBDA idx : idx > 0 /\ idx < Len(vertices))
  IN [k \in 1..Len(kept) |-> vertices[kept[k] + 1]]

resolveVertices(triangleVertices, vertices) ==
  LET kept == SelectSeq(triangleVertices,
                        LAMBDA idx : idx >= 0 /\ idx < Len(vertices))
  IN [k \in 1..Len(kept) |-> vertices[kept[k] + 1]]

\* Local variables whose color starts at 0.
PolygonLocalsBlack(version, vertices) ==
  [version |-> version, vertices |-> vertices, color |-> U32(0, 0),
   flags |-> U32(0, 0), edgeCount |-> 0, triangleVertices |-> <<>>,
   triangleElements |-> <<>>, vtxCount |-> 0, elemCount |-> 0, i |-> 0]

\* The local variables of readBrushPolygon(version, vertices).
PolygonLocals(version, vertices) ==
  [version |-> version, vertices |-> vertices, color |-> U32(65535, 65535),
   flags |-> U32(0, 0), edgeCount |-> 0, triangleVertices |-> <<>>,
   triangleElements |-> <<>>, vtxCount |-> 0, elemCount |-> 0, i |-> 0]

\* The catch block of readBrushPolygon: return null.
catchReadBrushPolygon(s) == ReturnValue(Catch(s), <<>>)

readBrushPolygon(s) ==
  IF s.thrown THEN catchReadBrushPolygon(s)
  ELSE CASE s.pc = 584 -> Goto(readInt32(s), 589)   \* plane index
         [] s.pc = 589 ->
              IF s.loc.version >= 2
                THEN Goto(SetLocal(Store(readUInt32(Store(readUInt32(s),
                                                          "color")),
                                         "flags"),
                                   "i", 0),
                          593)
              ELSE Goto(s, 600)
         [] s.pc = 593 ->
              IF s.loc.i < 3 THEN Goto(Incr(skipTexture(s)), 593)
              ELSE Goto(seek(s, 8), 600)   \* properties
         [] s.pc = 600 ->
              Goto(SetLocal(Store(readInt32(s), "edgeCount"), "i", 0), 601)
         [] s.pc = 601 ->
              IF s.loc.i < s.loc.edgeCount
                THEN Goto(Incr(readInt32(s)), 601)   \* edge index
              ELSE Goto(s, 608)
         [] s.pc = 608 ->
              IF s.loc.version >= 4
                THEN Goto(SetLocal(Store(readInt32(s), "vtxCount"), "i", 0),
                          610)
              ELSE Goto(s, 620)
         [] s.pc = 610 ->
              IF s.loc.i < s.loc.vtxCount
                THEN Goto(Incr(Push(readInt32(s), "triangleVertices")), 610)
              ELSE Goto(SetLocal(Store(readInt32(s), "elemCount"), "i", 0),
                        615)
         [] s.pc = 615 ->
              IF s.loc.i < s.loc.elemCount
                THEN Goto(Incr(Push(readInt32(s), "triangleElements")), 615)
              ELSE Goto(s, 620)
         [] s.pc = 620 ->
              IF s.loc.version >= 2
                THEN Goto(readUInt32(skipShadowMap(s)), 628)   \* shadow color
              ELSE Goto(readUInt8(skipShadowMap(s)), 628)      \* dummy
         [] s.pc = 628 ->
              ReturnValue(s, <<[vertices |->
                                  resolveVertices(s.loc.triangleVertices,
                                                  s.loc.vertices),
                                indices |-> s.loc.triangleElements,
                                color |-> s.loc.color,
                                flags |-> s.loc.flags]>>)

\* The local variables of readBrushSector().
SectorLocals ==
  [version |-> 0, name |-> <<>>, color |-> U32(0, 0), ambient |-> U32(0, 0),
   flags |-> U32(0, 0), vertexCount |-> 0, vertices |-> <<>>, x |-> <<>>,
   y |-> <<>>, z |-> <<>>, planeCount |-> 0, edgeCount |-> 0,
   bpoVersion |-> 0, polygonCount |-> 0, polygons |-> <<>>, i |-> 0]

\* A vertex that is read and not kept.
dropVertex(s) == s

\* vertices.push({ x, y, z })
pushVertex(s) ==
  IF s.thrown THEN s
  ELSE [s EXCEPT !.loc.vertices =
          Append(@, [x |-> s.loc.x, y |-> s.loc.y, z |-> s.loc.z])]

\* The catch block of readBrushSector.
catchReadBrushSector(s) ==
  ReturnValue(LogError(Catch(s), "warn", "Could not read sector", s.exc),
              <<>>)

readBrushSector(s) ==
  IF s.thrown THEN catchReadBrushSector(s)
  ELSE CASE s.pc = 493 ->
              Goto(Store(readInt32(expectChunkID(s, FourCC.BSC)), "version"),
                   498)
         [] s.pc = 498 ->
              IF s.loc.version >= 1 THEN Goto(readInt32(s), 500)
              ELSE Goto(s, 505)
         [] s.pc = 500 ->
              IF s.val > 0 /\ s.val < 1000
                THEN Goto(Store(readString(s, s.val), "name"), 505)
              ELSE Goto(s, 505)
         [] s.pc = 505 ->
              Goto(Store(readUInt32(Store(readUInt32(Store(readUInt32(s),
                                                           "color")),
                                          "ambient")),
                         "flags"),
                   509)
         [] s.pc = 509 ->
              IF s.loc.version >= 2 THEN Goto(readUInt32(s), 512)   \* flags2
              ELSE Goto(s, 512)
         [] s.pc = 512 ->
              IF s.loc.version >= 3 THEN Goto(readUInt32(s), 516)   \* visFlags
              ELSE Goto(s, 516)
         [] s.pc = 516 ->
              Goto(SetLocal(LogVal(Store(readInt32(expectChunkID(s,
                                                     FourCC.VTXs)),
                                         "vertexCount"),
                                   "info", "Sector has vertices"),
                            "i", 0),
                   521)
         [] s.pc = 521 ->
              IF s.loc.i < s.loc.vertexCount
                THEN Goto(Incr(pushVertex(
                            Store(readFloat64(Store(readFloat64(
                              Store(readFloat64(s), "x")), "y")), "z"))),
                          521)
              ELSE Goto(s, 528)
         [] s.pc = 528 ->
              Goto(SetLocal(LogVal(Store(readInt32(expectChunkID(s,
                                                     FourCC.PLNs)),
                                         "planeCount"),
                                   "info", "Sector has planes"),
                            "i", 0),
                   532)
         [] s.pc = 532 ->
              IF s.loc.i < s.loc.planeCount
                THEN Goto(Incr(readFloat64(readFloat64(readFloat64(
                            readFloat64(s))))),
                          532)
              ELSE Goto(s, 539)
         [] s.pc = 539 ->
              Goto(SetLocal(Store(readInt32(expectChunkID(s, FourCC.EDGs)),
                                  "edgeCount"),
                            "i", 0),
                   541)
         [] s.pc = 541 ->
              IF s.loc.i < s.loc.edgeCount
                THEN Goto(Incr(readInt32(readInt32(s))), 541)
              ELSE Goto(s, 546)
         [] s.pc = 546 ->
              Goto(Store(readInt32(expectChunkID(s, FourCC.BPOs)),
                         "bpoVersion"),
                   548)
         [] s.pc = 548 ->
              Goto(SetLocal(LogVal(Store(readInt32(s), "polygonCount"),
                                   "info", "Sector has polygons"),
                            "i", 0),
                   552)
         [] s.pc = 552 ->
              IF s.loc.i < s.loc.polygonCount
                THEN Call(s, "readBrushPolygon", 584,
                          PolygonLocals(s.loc.bpoVersion, s.loc.vertices), 554)
              ELSE Goto(peekChunkID(s), 559)
         [] s.pc = 554 -> Goto(Incr(Collect(s, "polygons")), 552)
         [] s.pc = 559 ->
              IF s.val = FourCC.BSP0
                THEN Goto(skipBSPTree(expectChunkID(s, FourCC.BSP0)), 564)
              ELSE Goto(s, 564)
         [] s.pc = 564 ->
              ReturnValue(Log(s, "success", "Sector read",
                              <<Len(s.loc.polygons), Len(s.loc.vertices)>>),
                          <<[name |-> s.loc.name, color |-> s.loc.color,
                             ambient |-> s.loc.ambient, flags |-> s.loc.flags,
                             vertices |-> s.loc.vertices,
                             polygons |-> s.loc.polygons]>>)

\* The bytes of the 32-bit float 1000000.0, lowest first.
DefaultMaxDistance == <<0, 36, 116, 73>>

\* The local variables of readBrushMip().
MipLocals ==
  [maxDistance |-> DefaultMaxDistance, sectorCount |-> 0, sectors |-> <<>>,
   i |-> 0]

\* The catch block of readBrushMip.
catchReadBrushMip(s) ==
  ReturnValue(LogError(Catch(s), "warn", "Could not read brush mip", s.exc),
              <<>>)

readBrushMip(s) ==
  IF s.thrown THEN catchReadBrushMip(s)
  ELSE CASE s.pc = 463 -> Goto(peekChunkID(s), 464)
         [] s.pc = 464 ->
              IF s.val = FourCC.BRMP
                THEN Goto(Store(readFloat32(expectChunkID(s, FourCC.BRMP)),
                                "maxDistance"),
                          468)
              ELSE Goto(s, 468)
         [] s.pc = 468 ->
              Goto(LogVal(Store(readInt32(s), "sectorCount"),
                          "info", "Mip has sectors"),
                   476)
         [] s.pc = 476 ->
              IF s.loc.i < s.loc.sectorCount
                THEN Call(s, "readBrushSector", 493, SectorLocals, 478)
              ELSE ReturnValue(s, <<[maxDistance |-> s.loc.maxDistance,
                                     sectors |-> s.loc.sectors]>>)
         [] s.pc = 478 -> Goto(Incr(Collect(s, "sectors")), 476)

\* The local variables of readBrush3D().
BrushLocals == [mipCount |-> 0, mips |-> <<>>, i |-> 0]

\* The catch block of readBrush3D.
catchReadBrush3D(s) ==
  ReturnValue(LogError(Catch(s), "warn", "Could not read brush", s.exc), <<>>)

readBrush3D(s) ==
  IF s.thrown THEN catchReadBrush3D(s)
  ELSE CASE s.pc = 428 ->
              Goto(LogVal(readInt32(expectChunkID(s, FourCC.BR3D)),
                          "info", "Brush version"),
                   433)
         [] s.pc = 433 ->
              Goto(LogVal(Store(readInt32(s), "mipCount"),
                          "info", "Brush has mip levels"),
                   441)
         [] s.pc = 441 ->
              IF s.loc.i < s.loc.mipCount
                THEN Call(s, "readBrushMip", 463, MipLocals, 443)
              ELSE ReturnValue(Log(expectChunkID(s, FourCC.BREN), "success",
                                   "Brush read successfully", <<>>),
                               <<[id |-> 0, mips |-> s.loc.mips]>>)
         [] s.pc = 443 -> Goto(Incr(Collect(s, "mips")), 441)

\* A push that is made twice.
PushBrushTwice(s) ==
  IF s.thrown \/ s.val = <<>> THEN s
  ELSE [s EXCEPT !.world.brushes =
          Append(Append(@, [s.val[1] EXCEPT !.id = s.loc.i]),
                 [s.val[1] EXCEPT !.id = s.loc.i])]

\* if (brush) { brush.id = i; world.brushes.push(brush) }, brush being what
\* readBrush3D returned
PushBrush(s) ==
  IF s.thrown \/ s.val = <<>> THEN s
  ELSE [s EXCEPT !.world.brushes =
          Append(@, [s.val[1] EXCEPT !.id = s.loc.i])]

\* The local variables of readBrushArchive().
ArchiveLocals == [brushCount |-> 0, i |-> 0]

\* The catch block of readBrushArchive.
catchReadBrushArchive(s) ==
  Return(LogError(Catch(s), "warn", "Could not fully read brush archive",
                  s.exc))

readBrushArchive(s) ==
  IF s.thrown THEN catchReadBrushArchive(s)
  ELSE CASE s.pc = 395 ->
              Goto(LogVal(Store(readInt32(expectChunkID(
                                  Log(s, "info",
                                      "Reading brush archive (BRAR)", <<>>),
                                  FourCC.BRAR)),
                                "brushCount"),
                          "success", "Found brushes in archive"),
                   401)
         [] s.pc = 401 ->
              IF s.loc.i < s.loc.brushCount
                THEN Call(Log(s, "info", "Reading brush",
                              <<s.loc.i + 1, s.loc.brushCount>>),
                          "readBrush3D", 428, BrushLocals, 404)
              ELSE Goto(peekChunkID(s), 411)
         [] s.pc = 404 -> Goto(Incr(PushBrush(s)), 401)
         [] s.pc = 411 ->
              IF s.val = FourCC.PSLS
                THEN Goto(skipPortalSectorLinks(
                            Log(s, "info",
                                "Skipping portal-sector links (PSLS)", <<>>)),
                          416)
              ELSE Goto(s, 416)
         [] s.pc = 416 -> Goto(peekChunkID(s), 417)
         [] s.pc = 417 ->
              IF s.val = FourCC.EOAR
                THEN Return(Log(expectChunkID(s, FourCC.EOAR), "success",
                                "End of brush archive (EOAR)", <<>>))
              ELSE Return(s)

(***************************************************************************)
(* WldParser: the terrain archive.                                         *)
(***************************************************************************)
\* if (sizeX > 0 && sizeY > 0 && sizeX < 10000 && sizeY < 10000) {
\*   seek(sizeX * sizeY * 2); seek(sizeX * sizeY) }
skipTerrainMaps(s) ==
  IF s.thrown THEN s
  ELSE IF s.loc.sizeX > 0 /\ s.loc.sizeY > 0
          /\ s.loc.sizeX < 10000 /\ s.loc.sizeY < 10000
    THEN seek(seek(s, s.loc.sizeX * s.loc.sizeY * 2),
              s.loc.sizeX * s.loc.sizeY)
  ELSE s

\* The local variables of skipSingleTerrain().
TerrainLocals == [sizeX |-> 0, sizeY |-> 0]

\* A catch block that logs nothing.
catchSilently(s) == Return(Catch(s))

\* The catch block of skipSingleTerrain.
catchSkipSingleTerrain(s) ==
  Return(Log(Catch(s), "warn", "Could not skip single terrain", <<>>))

skipSingleTerrain(s) ==
  IF s.thrown THEN catchSkipSingleTerrain(s)
  ELSE CASE s.pc = 721 ->
              Goto(seek(seekIfBelow(
                          readInt32(readInt32(expectChunkID(s, FourCC.TRRN))),
                          1000),
                        8),
                   732)
         [] s.pc = 732 ->
              Goto(skipTerrainMaps(
                     Store(readInt32(Store(readInt32(s), "sizeX")), "sizeY")),
                   743)
         [] s.pc = 743 ->
              IF ~atEOF(s) THEN Goto(peekChunkID(s), 745)
              ELSE Goto(s, 752)
         [] s.pc = 745 ->
              IF s.val \in {FourCC.TREN, FourCC.TRRN, FourCC.EOTA, FourCC.DPOS}
                THEN Goto(s, 752)   \* break
              ELSE Goto(readUInt8(s), 743)
         [] s.pc = 752 -> Goto(peekChunkID(s), 753)
         [] s.pc = 753 ->
              IF s.val = FourCC.TREN
                THEN Return(expectChunkID(s, FourCC.TREN))
              ELSE Return(s)

\* The local variables of skipTerrainArchive().
TerrainArchiveLocals == [terrainCount |-> 0, i |-> 0]

\* The catch block of skipTerrainArchive.
catchSkipTerrainArchive(s) ==
  Return(Log(Catch(s), "warn", "Could not skip terrain archive", <<>>))

skipTerrainArchive(s) ==
  IF s.thrown THEN catchSkipTerrainArchive(s)
  ELSE CASE s.pc = 702 ->
              Goto(LogVal(Store(readInt32(expectChunkID(s, FourCC.TRAR)),
                                "terrainCount"),
                          "info", "Skipping terrains"),
                   706)
         [] s.pc = 706 ->
              IF s.loc.i < s.loc.terrainCount
                THEN Call(s, "skipSingleTerrain", 721, TerrainLocals, 707)
              ELSE Goto(peekChunkID(s), 710)
         [] s.pc = 707 -> Goto(Incr(s), 706)
         [] s.pc = 710 ->
              IF s.val = FourCC.EOTA
                THEN Return(Log(expectChunkID(s, FourCC.EOTA), "success",
                                "End of terrain archive (EOTA)", <<>>))
              ELSE Return(s)

(***************************************************************************)
(* WldParser: the scan for a chunk, the dictionary, the world info.        *)
(***************************************************************************)
\* The local variables of findChunkInFile(chunkID).
FindLocals(chunkID) == [chunkID |-> chunkID, startPos |-> 0, i |-> 0]

\* A loop body that takes whatever chunk it peeks for the one it looks for.
matchAnyChunk(s) == IF s.thrown THEN s ELSE ReturnValue(s, s.loc.i)

\* The body of the loop of findChunkInFile, after its peekChunkID:
\* if (chunk === chunkID) return i;
matchChunk(s) ==
  IF s.thrown THEN s
  ELSE IF s.val = s.loc.chunkID THEN ReturnValue(s, s.loc.i)
  ELSE Goto(Incr(s), 764)

\* findChunkInFile has no try block.
findChunkInFile(s) ==
  IF s.thrown THEN Propagate(s)
  ELSE CASE s.pc = 761 ->
              Goto(SetLocal(SetLocal([s EXCEPT !.scan = s.pos],
                                     "startPos", s.pos),
                            "i", s.pos),
                   764)
         [] s.pc = 764 ->
              IF s.loc.i < getSize - 4
                THEN matchChunk(peekChunkID(setPosition(s, s.loc.i)))
              ELSE ReturnValue(setPosition(s, s.loc.startPos), -1)

\* The local variables of readDictionary(position).
DictionaryLocals(dictPosition) ==
  [position |-> dictPosition, fileNameCount |-> 0, i |-> 0]

\* filename just read: if (i < 3) log
logFileName(s) ==
  IF s.thrown \/ s.loc.i >= 3 THEN s
  ELSE Log(s, "info", "  [i] filename", <<s.loc.i + 1>> \o s.val)

\* if (fileNameCount > 3) log
logMoreResources(s) ==
  IF s.thrown THEN s
  ELSE IF s.loc.fileNameCount > 3
    THEN Log(s, "info", "  ... and more resources", <<s.loc.fileNameCount - 3>>)
  ELSE s

\* The catch block of readDictionary: log; return -1.
catchReadDictionary(s) ==
  ReturnValue(LogError(Catch(s), "warn", "Could not read dictionary", s.exc),
              -1)

\* Returns the position after DEND, or -1.
readDictionary(s) ==
  IF s.thrown THEN catchReadDictionary(s)
  ELSE CASE s.pc = 779 ->
              Goto(LogVal(Store(readInt32(expectChunkID(
                                  setPosition(s, s.loc.position),
                                  FourCC.DICT)),
                                "fileNameCount"),
                          "success", "Dictionary contains textures/resources"),
                   785)
         [] s.pc = 785 ->
              IF s.loc.i < s.loc.fileNameCount THEN Goto(readInt32(s), 787)
              ELSE Goto(expectChunkID(logMoreResources(s), FourCC.DEND), 800)
         [] s.pc = 787 ->
              IF s.val > 0 /\ s.val < 500
                THEN Goto(Incr(logFileName(readString(s, s.val))), 785)
              ELSE Goto(Incr(s), 785)
         [] s.pc = 800 ->
              ReturnValue(Log(s, "info", "Dictionary ends at position",
                              <<s.pos>>),
                          s.pos)

\* world.name = readString(nameLength); log
setWorldName(s) ==
  IF s.thrown THEN s
  ELSE Log([s EXCEPT !.world.name = s.val], "success", "World name", s.val)

\* world.spawnFlags = readUInt32(); log
setSpawnFlags(s) ==
  IF s.thrown THEN s
  ELSE Log([s EXCEPT !.world.spawnFlags = s.val],
           "info", "Spawn flags", <<s.val.hi, s.val.lo>>)

\* world.description = readString(descLength); log
\* A description cut to the 50 characters that are logged.
setDescriptionSummary(s) ==
  IF s.thrown THEN s
  ELSE Log([s EXCEPT !.world.description = SubSeq(s.val, 1, Min(50, Len(s.val)))],
           "success", "World description",
           SubSeq(s.val, 1, Min(50, Len(s.val))))

setWorldDescription(s) ==
  IF s.thrown THEN s
  ELSE Log([s EXCEPT !.world.description = s.val],
           "success", "World description",
           SubSeq(s.val, 1, Min(50, Len(s.val))))

\* The catch block of readWorldInfo.
catchReadWorldInfo(s) ==
  Return(LogError(Catch(s), "warn", "Could not read world info", s.exc))

readWorldInfo(s) ==
  IF s.thrown THEN catchReadWorldInfo(s)
  ELSE CASE s.pc = 812 ->
              Goto(peekChunkID(expectChunkID(
                     Log(s, "info", "Reading world info (WLIF)", <<>>),
                     FourCC.WLIF)),
                   815)
         [] s.pc = 815 ->
              IF s.val = FourCC.DTRS
                THEN Goto(Log(expectChunkID(s, FourCC.DTRS), "info",
                              "Found DTRS chunk", <<>>),
                          820)
              ELSE Goto(s, 820)
         [] s.pc = 820 ->
              Goto(LogVal(readInt32(s), "info", "Name length"), 823)
         [] s.pc = 823 ->
              IF s.val > 0 /\ s.val < 1000
                THEN Goto(setWorldName(readString(s, s.val)), 828)
              ELSE Goto(s, 828)
         [] s.pc = 828 ->
              Goto(LogVal(readInt32(setSpawnFlags(readUInt32(s))),
                          "info", "Description length"),
                   834)
         [] s.pc = 834 ->
              IF s.val > 0 /\ s.val < 10000
                THEN Return(setWorldDescription(readString(s, s.val)))
              ELSE Return(s)

(***************************************************************************)
(* WldParser: the sections of parse().                                     *)
(***************************************************************************)
\* log(`... "${chunk}"`), chunk being the chunk id just peeked
LogChunk(s, text) == IF s.thrown THEN s ELSE Log(s, "info", text, s.val)

\* The log of the build version, without the assignment to the world.
logEngineBuild(s) ==
  IF s.thrown THEN s
  ELSE Log(s, "success", "Engine build version", <<s.val>>)

\* world.engineBuild = buildVersion; log
setEngineBuild(s) ==
  IF s.thrown THEN s
  ELSE Log([s EXCEPT !.world.engineBuild = <<s.val>>],
           "success", "Engine build version", <<s.val>>)

\* world.engineVersion = readString(versionStringLength); log
setEngineVersion(s) ==
  IF s.thrown THEN s
  ELSE Log([s EXCEPT !.world.engineVersion = <<s.val>>],
           "success", "Engine version", s.val)

\* The catch block of readEngineVersion.
catchReadEngineVersion(s) ==
  Return(Log(Catch(s), "warn",
             "Could not read engine version, continuing anyway", <<>>))

readEngineVersion(s) ==
  IF s.thrown THEN catchReadEngineVersion(s)
  ELSE CASE s.pc = 304 ->
              Goto(LogChunk(peekChunkID(
                              Log(s, "info", "Reading engine version header",
                                  <<>>)),
                            "Version chunk ID"),
                   309)
         [] s.pc = 309 ->
              IF s.val = FourCC.BUIV
                THEN Goto(peekChunkID(setEngineBuild(readInt32(
                            Log(expectChunkID(s, FourCC.BUIV), "info",
                                "Found BUIV (Build Version) chunk", <<>>)))),
                          318)
              ELSE Return(Log(s, "warn",
                              "No engine version header found, file might be older format",
                              <<>>))
         [] s.pc = 318 ->
              IF s.val = FourCC.VERC
                THEN Goto(readInt32(expectChunkID(s, FourCC.VERC)), 321)
              ELSE Return(s)
         [] s.pc = 321 ->
              IF s.val > 0 /\ s.val < 1000
                THEN Return(setEngineVersion(readString(s, s.val)))
              ELSE Return(s)

\* if (end !== -1) { log; setPosition(end) }, end being the local name
\* No jump, whatever the local variable holds.
stayPut(s, name, text) == s

JumpTo(s, name, text) ==
  IF s.thrown THEN s
  ELSE IF s.loc[name] # -1
    THEN setPosition(Log(s, "info", text, <<s.loc[name]>>), s.loc[name])
  ELSE s

\* The local variables of readBrushes().
BrushesLocals == [dictionaryEndPosition |-> -1, continuePosition |-> 0]

\* readBrushes has no try block.
readBrushes(s) ==
  IF s.thrown THEN Propagate(s)
  ELSE CASE s.pc = 335 ->
              Goto(LogChunk(peekChunkID(
                              Log(s, "info", "Reading brushes section", <<>>)),
                            "Next chunk"),
                   340)
         [] s.pc = 340 ->
              IF s.val = FourCC.WLIF
                THEN Call(s, "readWorldInfo", 812, <<>>, 344)
              ELSE Goto(s, 344)
         [] s.pc = 344 -> Goto(peekChunkID(s), 345)
         [] s.pc = 345 ->
              IF s.val = FourCC.DIMP
                THEN Goto(seekIfBelow(
                            readInt32(expectChunkID(
                              Log(s, "info",
                                  "Found DIMP (Dictionary Import), skipping",
                                  <<>>),
                              FourCC.DIMP)),
                            10000000),
                          354)
              ELSE Goto(s, 354)
         [] s.pc = 354 -> Goto(peekChunkID(s), 355)
         [] s.pc = 355 ->
              IF s.val = FourCC.DPOS
                THEN Goto(LogVal(readInt32(expectChunkID(
                                   Log(s, "info",
                                       "Found DPOS (Dictionary Position) for brushes",
                                       <<>>),
                                   FourCC.DPOS)),
                                 "info", "Brush dictionary stored at position"),
                          360)
              ELSE Goto(s, 365)
         [] s.pc = 360 ->
              Call(SetLocal(s, "continuePosition", s.pos), "readDictionary",
                   779, DictionaryLocals(s.val), 362)
         [] s.pc = 362 ->
              Goto(setPosition(Store(s, "dictionaryEndPosition"),
                               s.loc.continuePosition),
                   365)
         [] s.pc = 365 -> Goto(peekChunkID(s), 366)
         [] s.pc = 366 ->
              IF s.val = FourCC.BRAR
                THEN Call(s, "readBrushArchive", 395, ArchiveLocals, 371)
              ELSE Goto(Log(s, "warn",
                            "No BRAR chunk found after WLIF+DPOS, brushes section might be empty",
                            <<>>),
                        371)
         [] s.pc = 371 -> Goto(peekChunkID(s), 372)
         [] s.pc = 372 ->
              IF s.val = FourCC.TRAR
                THEN Call(Log(s, "info",
                              "Found TRAR (Terrain Archive), skipping", <<>>),
                          "skipTerrainArchive", 702, TerrainArchiveLocals, 376)
              ELSE Goto(s, 376)
         [] s.pc = 376 ->
              Call(Log(JumpTo(s, "dictionaryEndPosition",
                              "Jumping to end of dictionary at position"),
                       "info", "Searching for WSTA chunk in file...", <<>>),
                   "findChunkInFile", 761, FindLocals(FourCC.WSTA), 384)
         [] s.pc = 384 ->
              IF s.val # -1
                THEN Return(setPosition(
                              LogVal(s, "success", "Found WSTA at position"),
                              s.val))
              ELSE Throw(Log(s, "error", "Could not find WSTA chunk", <<>>),
                         WstaNotFoundError)

\* world.backgroundColor = readUInt32(); log
setBackgroundColor(s) ==
  IF s.thrown THEN s
  ELSE Log([s EXCEPT !.world.backgroundColor = s.val],
           "success", "Background color", <<s.val.hi, s.val.lo>>)

\* The local variables of readState().
StateLocals == [stateDictionaryEndPosition |-> -1, continuePosition |-> 0]

\* A readState with no catch block: the exception goes to the caller.
rethrowReadState(s) == Propagate(s)

\* The catch block of readState.
catchReadState(s) ==
  Return(LogError(Catch(s), "warn", "Could not fully read world state",
                  s.exc))

readState(s) ==
  IF s.thrown THEN catchReadState(s)
  ELSE CASE s.pc = 846 -> Goto(peekChunkID(s), 847)
         [] s.pc = 847 ->
              IF s.val = FourCC.DIMP
                THEN Goto(seekIfBelow(
                            readInt32(expectChunkID(
                              Log(s, "info",
                                  "Found DIMP (Dictionary Import) before WSTA, skipping",
                                  <<>>),
                              FourCC.DIMP)),
                            10000000),
                          856)
              ELSE Goto(s, 856)
         [] s.pc = 856 -> Goto(peekChunkID(s), 857)
         [] s.pc = 857 ->
              IF s.val = FourCC.DPOS
                THEN Goto(LogVal(readInt32(expectChunkID(
                                   Log(s, "info",
                                       "Found DPOS (Dictionary Position) before WSTA",
                                       <<>>),
                                   FourCC.DPOS)),
                                 "info", "State dictionary stored at position"),
                          862)
              ELSE Goto(s, 867)
         [] s.pc = 862 ->
              Call(SetLocal(s, "continuePosition", s.pos), "readDictionary",
                   779, DictionaryLocals(s.val), 864)
         [] s.pc = 864 ->
              Goto(setPosition(Store(s, "stateDictionaryEndPosition"),
                               s.loc.continuePosition),
                   867)
         [] s.pc = 867 ->
              Goto(peekChunkID(
                     LogVal(readInt32(expectChunkID(
                              Log(s, "info", "Reading world state (WSTA)",
                                  <<>>),
                              FourCC.WSTA)),
                            "success", "World state version")),
                   873)
         [] s.pc = 873 ->
              IF s.val = FourCC.WLIF
                THEN Call(s, "readWorldInfo", 812, <<>>, 877)
              ELSE Goto(s, 877)
         [] s.pc = 877 ->
              Return(JumpTo(setBackgroundColor(readUInt32(s)),
                            "stateDictionaryEndPosition",
                            "Jumping to end of state dictionary at position"))

\* new TextEncoder().encode('WEND'): the UTF-8 bytes of an ASCII string are
\* its code points.
wendBytes == FourCC.WEND

\* The local variables of skipToWEND(): the elements of bytes.
WendLocals == [byte0 |-> 0, byte1 |-> 0, byte2 |-> 0, byte3 |-> 0]

\* bytes[i] = readUInt8(), for i from 0 to 3
readFourBytes(s) ==
  Store(readUInt8(Store(readUInt8(Store(readUInt8(Store(readUInt8(s),
        "byte0")), "byte1")), "byte2")), "byte3")

\* skipToWEND has no try block.
skipToWEND(s) ==
  IF s.thrown THEN Propagate(s)
  ELSE CASE s.pc = 892 ->
              Goto(Log(s, "info",
                       "Searching for WEND chunk in remaining data...", <<>>),
                   896)
         [] s.pc = 896 ->
              IF atEOF(s) \/ getSize - s.pos < 4
                THEN Return(Log(s, "warn",
                                "WEND chunk not found, file may be incomplete",
                                <<>>))
              ELSE Goto(readFourBytes(s), 908)
         [] s.pc = 908 ->
              IF <<s.loc.byte0, s.loc.byte1, s.loc.byte2, s.loc.byte3>>
                   = wendBytes
                THEN Return(Log(seek(s, -4), "success",
                                "Found WEND at position", <<s.pos - 4>>))
              ELSE Goto(seek(s, -3), 896)

(***************************************************************************)
(* parse().  Its try block spans its sections: an exception that reaches   *)
(* parse() is logged as an error event and thrown to the caller.  A        *)
(* section of parse() ends where the next one starts.                      *)
(***************************************************************************)
\* A world that starts with a name and spawn flags already in it.
UnclearedWorld ==
  [name |-> <<63>>, description |-> <<>>, backgroundColor |-> [hi |-> 0, lo |-> 0],
   entities |-> <<>>, brushes |-> <<>>, spawnFlags |-> [hi |-> 0, lo |-> 1],
   engineVersion |-> <<>>, engineBuild |-> <<>>]

DefaultWorld ==
  [name |-> <<>>, description |-> <<>>, backgroundColor |-> U32(0, 0),
   entities |-> <<>>, brushes |-> <<>>, spawnFlags |-> U32(0, 0),
   engineVersion |-> <<>>, engineBuild |-> <<>>]

\* The section that is running ends; parse() goes on at line pc.
EndSection(s, pc) ==
  IF s.thrown THEN s ELSE [s EXCEPT !.pc = pc, !.done = TRUE]

\* catch (error) { this.log('error', `Parse failed: ${errorMsg}`); throw error; }
\* The exception is thrown again: it is not absorbed.
parseCatch(s) ==
  [LogError(Catch(s), "error", "Parse failed", s.exc)
     EXCEPT !.thrown = TRUE, !.done = TRUE, !.caught = s.caught]

parse(s) ==
  IF s.thrown THEN parseCatch(s)
  ELSE CASE s.pc = 274 ->
              Call(Log(s, "info", "Starting parse. File size", <<getSize>>),
                   "readEngineVersion", 304, <<>>, 277)
         [] s.pc = 277 -> EndSection(s, 278)
         [] s.pc = 278 ->
              EndSection(
                Log(expectChunkID(
                      LogChunk(peekChunkID(
                                 Log(s, "info",
                                     "Looking for WRLD chunk at position",
                                     <<s.pos>>)),
                               "Found chunk"),
                      FourCC.WRLD),
                    "success", "Found WRLD chunk", <<>>),
                285)
         [] s.pc = 285 -> Call(s, "readBrushes", 335, BrushesLocals, 286)
         [] s.pc = 286 -> EndSection(s, 287)
         [] s.pc = 287 -> Call(s, "readState", 846, StateLocals, 288)
         [] s.pc = 288 -> EndSection(s, 289)
         [] s.pc = 289 -> Call(s, "skipToWEND", 892, WendLocals, 290)
         [] s.pc = 290 ->
              EndSection(Log(expectChunkID(s, FourCC.WEND), "success",
                             "Successfully parsed WLD file", <<>>),
                         293)   \* return world

\* The statements at s.pc of the method that is running.
Step(s) ==
  CASE s.fn = "parse" -> parse(s)
    [] s.fn = "readEngineVersion" -> readEngineVersion(s)
    [] s.fn = "readBrushes" -> readBrushes(s)
    [] s.fn = "readBrushArchive" -> readBrushArchive(s)
    [] s.fn = "readBrush3D" -> readBrush3D(s)
    [] s.fn = "readBrushMip" -> readBrushMip(s)
    [] s.fn = "readBrushSector" -> readBrushSector(s)
    [] s.fn = "readBrushPolygon" -> readBrushPolygon(s)
    [] s.fn = "skipTerrainArchive" -> skipTerrainArchive(s)
    [] s.fn = "skipSingleTerrain" -> skipSingleTerrain(s)
    [] s.fn = "findChunkInFile" -> findChunkInFile(s)
    [] s.fn = "readDictionary" -> readDictionary(s)
    [] s.fn = "readWorldInfo" -> readWorldInfo(s)
    [] s.fn = "readState" -> readState(s)
    [] s.fn = "skipToWEND" -> skipToWEND(s)

\* A section of parse() takes fewer than 8^RunDepth steps.
RunDepth == 5

RECURSIVE Run(_, _)
\* The steps of the section that is running, to its end: at most 8^n of
\* them, those of each eighth before those of the next.
Run(s, n) ==
  IF s.done THEN s
  ELSE IF n = 0 THEN Step(s)
  ELSE LET a == Run(s, n - 1)
           b == Run(a, n - 1)
           c == Run(b, n - 1)
           d == Run(c, n - 1)
           e == Run(d, n - 1)
           f == Run(e, n - 1)
           g == Run(f, n - 1)
           h == Run(g, n - 1)
       IN <<a, b, c, d, e, f, g, h>>[8]

\* parse() at line pc, between two sections.
Resume(pc) ==
  [pos |-> position, world |-> world, log |-> log, thrown |-> FALSE,
   exc |-> NoErr, val |-> 0, fn |-> "parse", pc |-> pc, loc |-> <<>>,
   stack |-> <<>>, done |-> FALSE, lo |-> readLo, hi |-> readHi,
   scan |-> scanStart, caught |-> absorbed]

\* The section that started at line pc ended in r: parse() goes on with the
\* step next, or has failed.
Continue(r, next) ==
  /\ position' = r.pos
  /\ world' = r.world
  /\ log' = r.log
  /\ readLo' = r.lo
  /\ readHi' = r.hi
  /\ scanStart' = r.scan
  /\ buffer' = buffer
  /\ raised' = r.exc
  /\ absorbed' = r.caught
  /\ call' = call
  /\ IF r.thrown
       THEN /\ phase' = "Failed"
            /\ error' = r.exc
            /\ returned' = <<>>
       ELSE /\ phase' = IF r.done THEN next ELSE "Running"
            /\ error' = error
            /\ returned' = IF r.done /\ next = "Complete" THEN <<r.world>>
                           ELSE <<>>

EngineVersion ==
  /\ phase = "EngineVersion"
  /\ Continue(Run(Resume(274), RunDepth), "WorldRoot")

WorldRoot ==
  /\ phase = "WorldRoot"
  /\ Continue(Run(Resume(278), RunDepth), "BrushesSection")

BrushesSection ==
  /\ phase = "BrushesSection"
  /\ Continue(Run(Resume(285), RunDepth), "StateSection")

StateSection ==
  /\ phase = "StateSection"
  /\ Continue(Run(Resume(287), RunDepth), "End")

End ==
  /\ phase = "End"
  /\ Continue(Run(Resume(289), RunDepth), "Complete")

Next == EngineVersion \/ WorldRoot \/ BrushesSection \/ StateSection \/ End

(***************************************************************************)
(* The input buffers.  A buffer is the concatenation of the file's         *)
(* sections, each drawn from a few variants (variant 0 is the plain one:   *)
(* WRLD WSTA version backgroundColor WEND), then cut at any length.        *)
(***************************************************************************)
\* The four bytes of a signed 32-bit integer (two's complement), lowest first.
LE32(n) ==
  <<n % 256, (n \div 256) % 256, (n \div 65536) % 256,
    (n \div 16777216) % 256>>

\* n bytes of payload.
Fill(n) == [i \in 1..n |-> 120]

\* A 64-bit float whose lowest byte is k.
F64(k) == <<k, 0, 0, 0, 0, 0, 0, 0>>

Vertex(k) == F64(k) \o F64(k + 1) \o F64(k + 2)

HeaderVariant(o) ==
  CASE o = 0 -> <<>>
    [] o = 1 -> FourCC.BUIV \o LE32(42)
    [] o = 2 -> FourCC.BUIV \o LE32(42) \o FourCC.VERC \o LE32(2) \o <<97, 98>>
    [] o = 3 -> FourCC.BUIV \o LE32(42) \o FourCC.VERC \o LE32(999)
    [] o = 4 -> FourCC.BUIV \o LE32(42) \o FourCC.VERC \o LE32(0)

RootVariant(o) == IF o = 0 THEN FourCC.WRLD ELSE <<>>

InfoVariant(o) ==
  CASE o = 0 -> <<>>
    [] o = 1 -> FourCC.WLIF \o LE32(2) \o <<72, 105>> \o LE32(15) \o LE32(2) \o <<77, 121>>
    [] o = 2 -> FourCC.WLIF \o FourCC.DTRS \o LE32(0) \o LE32(15) \o LE32(10000)
    [] o = 3 -> FourCC.WLIF \o LE32(2) \o <<72, 105>> \o LE32(15) \o LE32(9999)
    [] o = 4 -> FourCC.WLIF \o LE32(32) \o <<72, 105>>

DimpVariant(o) ==
  CASE o = 0 -> <<>>
    [] o = 1 -> FourCC.DIMP \o LE32(2) \o Fill(2)
    [] o = 2 -> FourCC.DIMP \o LE32(-1)
    [] o = 3 -> FourCC.DIMP \o LE32(9999999)

Dictionary == FourCC.DICT \o LE32(1) \o LE32(2) \o <<116, 49>> \o FourCC.DEND

\* One texture slot of a polygon record, with a file name of n bytes.
TextureSlot(n) == LE32(n) \o Fill(n) \o Fill(24) \o Fill(4) \o Fill(4)

\* A polygon record of bpoVersion 4: triangle vertices tv, elements te.
PolygonV4(tv, te, shadowMap) ==
  LE32(0) \o <<255, 0, 0, 255>> \o LE32(5)
    \o TextureSlot(2) \o TextureSlot(0) \o TextureSlot(0) \o Fill(8)
    \o LE32(1) \o LE32(0)
    \o LE32(Len(tv) \div 4) \o tv \o LE32(Len(te) \div 4) \o te
    \o shadowMap \o LE32(7)

\* A polygon record of bpoVersion 1.
PolygonV1 == LE32(0) \o LE32(0) \o <<0>>

SectorV3 ==
  FourCC.BSC \o LE32(3) \o LE32(1) \o <<115>> \o LE32(1) \o LE32(2) \o LE32(3)
    \o LE32(4) \o LE32(5)
    \o FourCC.VTXs \o LE32(2) \o Vertex(1) \o Vertex(4)
    \o FourCC.PLNs \o LE32(1) \o F64(1) \o F64(2) \o F64(3) \o F64(4)
    \o FourCC.EDGs \o LE32(1) \o LE32(0) \o LE32(1)
    \o FourCC.BPOs \o LE32(4) \o LE32(1)
    \o PolygonV4(LE32(0) \o LE32(5) \o LE32(-1) \o LE32(1),
                 LE32(0) \o LE32(1) \o LE32(7),
                 FourCC.SHMP \o LE32(2) \o Fill(2))
    \o FourCC.BSP0 \o LE32(1) \o Fill(48)

SectorV0 ==
  FourCC.BSC \o LE32(0) \o LE32(1) \o LE32(2) \o LE32(3)
    \o FourCC.VTXs \o LE32(3) \o Vertex(1) \o Vertex(4) \o Vertex(7)
    \o FourCC.PLNs \o LE32(0) \o FourCC.EDGs \o LE32(0)
    \o FourCC.BPOs \o LE32(1) \o LE32(2) \o PolygonV1 \o PolygonV1

\* A BR3D entry of one mip, and entries of no mip: a well-formed one and one
\* whose end tag is damaged.
BrushOf(sector) ==
  FourCC.BR3D \o LE32(1) \o LE32(1) \o FourCC.BRMP \o <<0, 0, 72, 66>> \o LE32(1) \o sector
    \o FourCC.BREN

EmptyBrush == FourCC.BR3D \o LE32(1) \o LE32(0) \o FourCC.BREN

DamagedBrush == FourCC.BR3D \o LE32(1) \o LE32(0) \o <<66, 82, 69, 88>>

\* A sector whose VTXs tag is damaged, and one whose vertex count and polygon
\* count are -1.
DamagedSector ==
  FourCC.BSC \o LE32(0) \o LE32(1) \o LE32(2) \o LE32(3) \o <<86, 84, 88, 120>>

NegativeCountSector ==
  FourCC.BSC \o LE32(0) \o LE32(1) \o LE32(2) \o LE32(3)
    \o FourCC.VTXs \o LE32(-1) \o FourCC.PLNs \o LE32(0)
    \o FourCC.EDGs \o LE32(0) \o FourCC.BPOs \o LE32(1) \o LE32(-1)

ArchiveVariant(o) ==
  CASE o = 0 -> <<>>
    [] o = 1 -> FourCC.BRAR \o LE32(0) \o FourCC.EOAR
    [] o = 2 -> FourCC.BRAR \o LE32(2) \o EmptyBrush \o EmptyBrush
                  \o FourCC.PSLS \o LE32(1) \o LE32(2) \o Fill(2) \o FourCC.PSLE \o FourCC.EOAR
    [] o = 3 -> FourCC.BRAR \o LE32(2) \o DamagedBrush \o EmptyBrush \o FourCC.EOAR
    [] o = 4 -> FourCC.BRAR \o LE32(1) \o BrushOf(SectorV0) \o FourCC.EOAR
    [] o = 5 -> FourCC.BRAR \o LE32(1) \o BrushOf(SectorV3) \o FourCC.EOAR
    [] o = 6 -> FourCC.BRAR \o LE32(1) \o FourCC.BR3D \o LE32(1) \o LE32(1)
                  \o FourCC.BRMP \o <<0, 0, 72, 66>> \o LE32(2)
                  \o DamagedSector \o NegativeCountSector
                  \o FourCC.BREN \o FourCC.EOAR

TerrainVariant(o) ==
  CASE o = 0 -> <<>>
    [] o = 1 -> FourCC.TRAR \o LE32(0) \o FourCC.EOTA
    [] o = 2 -> FourCC.TRAR \o LE32(1) \o FourCC.TRRN \o LE32(1) \o LE32(1) \o <<116>> \o Fill(8)
                  \o LE32(1) \o LE32(1) \o Fill(2) \o Fill(1) \o Fill(3)
                  \o FourCC.TREN \o FourCC.EOTA
    [] o = 3 -> FourCC.TRAR \o LE32(1) \o FourCC.TRRN \o LE32(1) \o LE32(0) \o Fill(8)
                  \o LE32(0) \o LE32(0) \o Fill(2)

StateVariant(o) ==
  CASE o = 0 -> FourCC.WSTA \o LE32(1) \o <<0, 0, 255, 0>>
    [] o = 1 -> FourCC.WSTA \o LE32(1) \o InfoVariant(1) \o <<255, 0, 0, 0>>
    [] o = 2 -> <<>>

EndVariant(o) ==
  CASE o = 0 -> FourCC.WEND
    [] o = 1 -> <<>>
    [] o = 2 -> Fill(1) \o FourCC.WEND

\* The sections and the number of variants of each beside variant 0.
Variants ==
  [hdr |-> 4, root |-> 1, info |-> 4, dimp |-> 3, dpos |-> 4, brar |-> 6,
   trar |-> 3, state |-> 2, end |-> 2]

Sections == DOMAIN Variants

PlainLayout == [x \in Sections |-> 0]

\* The bytes of a layout.  DPOS variants: 1 points at a dictionary stored
\* before WSTA, 3 at one stored after the state section, 2 and 4 at offsets
\* outside the buffer.
Build(l) ==
  LET pre == HeaderVariant(l.hdr) \o RootVariant(l.root) \o InfoVariant(l.info)
               \o DimpVariant(l.dimp)
      mid == ArchiveVariant(l.brar) \o TerrainVariant(l.trar)
      st == StateVariant(l.state)
      dictAt == Len(pre) + 8 + Len(mid) + (IF l.dpos = 3 THEN Len(st) ELSE 0)
      target == CASE l.dpos = 2 -> -1
                  [] l.dpos = 4 -> 1000000
                  [] OTHER -> dictAt
      dpos == IF l.dpos = 0 THEN <<>> ELSE FourCC.DPOS \o LE32(target)
      tail == CASE l.dpos = 1 -> Dictionary \o st
                [] l.dpos = 3 -> st \o Dictionary
                [] OTHER -> st
  IN pre \o dpos \o mid \o tail \o EndVariant(l.end)

\* How many sections of a layout are not the plain variant.
Deviations(l) == Cardinality({x \in Sections : l[x] # 0})

MaxDeviations == 2

\* A section and a variant of it that is not the plain one.
Choices == UNION { {<<x, o>> : o \in 1..Variants[x]} : x \in Sections }

\* The layouts with at most k sections that are not the plain variant.
RECURSIVE Layouts(_)
Layouts(k) ==
  IF k = 0 THEN {PlainLayout}
  ELSE LET less == Layouts(k - 1)
       IN less \cup { [l EXCEPT ![c[1]] = c[2]] : l \in less, c \in Choices }

\* A layout of at most MaxDeviations deviations; cutting it short counts as
\* one deviation.
Init ==
  /\ \E l \in Layouts(MaxDeviations) :
       \E cut \in 0..Len(Build(l)) :
         /\ cut = Len(Build(l)) \/ Deviations(l) < MaxDeviations
         /\ buffer = SubSeq(Build(l), 1, cut)
  /\ position = 0
  /\ world = DefaultWorld
  /\ log = <<>>
  /\ phase = "EngineVersion"
  /\ error = NoErr
  /\ returned = <<>>
  /\ raised = NoErr
  /\ readLo = 0
  /\ readHi = -1
  /\ scanStart = -1
  /\ absorbed = 0
  /\ call = [fn |-> "parse", id |-> <<>>, length |-> 0]

Spec == Init /\ [][Next]_vars

(***************************************************************************)
(* The methods on their own: one call of findChunkInFile, of skipToWEND or *)
(* of readString, on a short buffer, with the position anywhere in it,     *)
(* past its end or before its start.                                       *)
(***************************************************************************)
\* Pieces of a buffer: parts of WEND, WEND, and a byte of payload.
Pieces == {<<>>, <<87>>, <<87, 69>>, <<87, 69, 78>>, FourCC.WEND, <<120>>}

ShortBuffers == {a \o b \o c : a, b, c \in Pieces}

\* Lengths asked of readString: around 0, and around the limit.
StringLengths == {-1, 0, 1, 3, 4, 1000000, 1000001}

Calls ==
  {[fn |-> "findChunkInFile", id |-> FourCC.WEND, length |-> 0],
   [fn |-> "skipToWEND", id |-> <<>>, length |-> 0]}
    \cup {[fn |-> "readString", id |-> <<>>, length |-> n] :
            n \in StringLengths}

\* The number of bytes of each fixed-width read.
Width ==
  [readUInt8 |-> 1, readInt8 |-> 1, readUInt16 |-> 2, readInt16 |-> 2,
   readUInt32 |-> 4, readInt32 |-> 4, readFloat32 |-> 4, readFloat64 |-> 8]

\* The reads of the cursor: the fixed-width reads, and the reads of a chunk
\* id, expectChunkID with an id that is in the buffers and one that is not.
StreamCalls ==
  {[fn |-> f, id |-> <<>>, length |-> 0] :
     f \in DOMAIN Width \cup {"readChunkID", "peekChunkID"}}
    \cup {[fn |-> "expectChunkID", id |-> id, length |-> 0] :
            id \in {FourCC.WEND, FourCC.WSTA}}

\* The caller, at the statement where it makes the call.
Caller == Resume(293)

RECURSIVE RunCall(_, _)
\* The steps of the method called, until the caller is running again: at most
\* 8^n of them.
RunCall(s, n) ==
  IF s.fn = "parse" THEN s
  ELSE IF n = 0 THEN Step(s)
  ELSE LET a == RunCall(s, n - 1)
           b == RunCall(a, n - 1)
           c == RunCall(b, n - 1)
           d == RunCall(c, n - 1)
           e == RunCall(d, n - 1)
           f == RunCall(e, n - 1)
           g == RunCall(f, n - 1)
           h == RunCall(g, n - 1)
       IN <<a, b, c, d, e, f, g, h>>[8]

\* The call ended in r: it returned r.val, or it threw r.exc.
Finish(r) ==
  /\ position' = r.pos
  /\ world' = r.world
  /\ log' = r.log
  /\ readLo' = r.lo
  /\ readHi' = r.hi
  /\ scanStart' = r.scan
  /\ buffer' = buffer
  /\ raised' = r.exc
  /\ absorbed' = r.caught
  /\ call' = call
  /\ phase' = IF r.thrown THEN "Threw"
              ELSE IF r.fn = "parse" THEN "Returned" ELSE "Running"
  /\ error' = IF r.thrown THEN r.exc ELSE error
  /\ returned' = IF r.thrown THEN <<>> ELSE <<r.val>>

CallFindChunkInFile ==
  /\ phase = "Call"
  /\ call.fn = "findChunkInFile"
  /\ Finish(RunCall(Call(Caller, "findChunkInFile", 761, FindLocals(call.id),
                         293),
                    RunDepth))

CallSkipToWEND ==
  /\ phase = "Call"
  /\ call.fn = "skipToWEND"
  /\ Finish(RunCall(Call(Caller, "skipToWEND", 892, WendLocals, 293),
                    RunDepth))

CallReadString ==
  /\ phase = "Call"
  /\ call.fn = "readString"
  /\ Finish(readString(Caller, call.length))

CallReadUInt8 ==
  /\ phase = "Call"
  /\ call.fn = "readUInt8"
  /\ Finish(readUInt8(Caller))

CallReadInt8 ==
  /\ phase = "Call"
  /\ call.fn = "readInt8"
  /\ Finish(readInt8(Caller))

CallReadUInt16 ==
  /\ phase = "Call"
  /\ call.fn = "readUInt16"
  /\ Finish(readUInt16(Caller))

CallReadInt16 ==
  /\ phase = "Call"
  /\ call.fn = "readInt16"
  /\ Finish(readInt16(Caller))

CallReadUInt32 ==
  /\ phase = "Call"
  /\ call.fn = "readUInt32"
  /\ Finish(readUInt32(Caller))

CallReadInt32 ==
  /\ phase = "Call"
  /\ call.fn = "readInt32"
  /\ Finish(readInt32(Caller))

CallReadFloat32 ==
  /\ phase = "Call"
  /\ call.fn = "readFloat32"
  /\ Finish(readFloat32(Caller))

CallReadFloat64 ==
  /\ phase = "Call"
  /\ call.fn = "readFloat64"
  /\ Finish(readFloat64(Caller))

CallReadChunkID ==
  /\ phase = "Call"
  /\ call.fn = "readChunkID"
  /\ Finish(readChunkID(Caller))

CallPeekChunkID ==
  /\ phase = "Call"
  /\ call.fn = "peekChunkID"
  /\ Finish(peekChunkID(Caller))

CallExpectChunkID ==
  /\ phase = "Call"
  /\ call.fn = "expectChunkID"
  /\ Finish(expectChunkID(Caller, call.id))

MethodNext ==
  \/ CallFindChunkInFile
  \/ CallSkipToWEND
  \/ CallReadString
  \/ CallReadUInt8
  \/ CallReadInt8
  \/ CallReadUInt16
  \/ CallReadInt16
  \/ CallReadUInt32
  \/ CallReadInt32
  \/ CallReadFloat32
  \/ CallReadFloat64
  \/ CallReadChunkID
  \/ CallPeekChunkID
  \/ CallExpectChunkID

\* The position is -1 for the reads of the stream alone: readDictionary(-1)
\* reads at the position a DPOS chunk gives, while findChunkInFile and skipToWEND start
\* where a read has succeeded or a method has returned.
MethodInit ==
  /\ buffer \in ShortBuffers
  /\ call \in Calls \cup StreamCalls
  /\ position \in (IF call.fn \in {"findChunkInFile", "skipToWEND"} THEN 0
                   ELSE -1)..(Len(buffer) + 1)
  /\ world = DefaultWorld
  /\ log = <<>>
  /\ phase = "Call"
  /\ error = NoErr
  /\ returned = <<>>
  /\ raised = NoErr
  /\ readLo = 0
  /\ readHi = -1
  /\ scanStart = -1
  /\ absorbed = 0

MethodSpec == MethodInit /\ [][MethodNext]_vars

(***************************************************************************)
(* The size-based skips, each called on a buffer that holds its tag, its   *)
(* size field and a few bytes of payload, cut at any length.  The cursor   *)
(* starts at 0, where the tag is.  The DIMP skip is lines 344-351 of       *)
(* readBrushes, which goes on at line 354.                                 *)
(***************************************************************************)
\* Size fields around 0 and around each limit of the skips.
SizeFields ==
  {-1, 0, 1, 2, 499, 500, 999999, 1000000, 9999999, 10000000, 99999999,
   100000000}

Payloads == {Fill(0), Fill(1), Fill(2), FourCC.PSLE, Fill(1) \o FourCC.PSLE}

Skips ==
  {"skipTexture", "skipShadowMap", "skipBSPTree", "skipPortalSectorLinks",
   "DIMP"}

\* What precedes the size field of each skip: its tag, and for PSLS a version.
BeforeSize ==
  [skipTexture |-> <<>>, skipShadowMap |-> FourCC.SHMP, skipBSPTree |-> <<>>,
   skipPortalSectorLinks |-> FourCC.PSLS \o LE32(1), DIMP |-> FourCC.DIMP]

SkipBuffers(fn) ==
  UNION {{SubSeq(BeforeSize[fn] \o LE32(n) \o p, 1, k) :
            k \in 0..Len(BeforeSize[fn] \o LE32(n) \o p)} :
           n \in SizeFields, p \in Payloads}

\* The limit below which each skip honours its size field.
Envelope ==
  [skipTexture |-> 500, skipShadowMap |-> 10000000, skipBSPTree |-> 1000000,
   skipPortalSectorLinks |-> 100000000, DIMP |-> 10000000]

CallSkipTexture ==
  /\ phase = "Call"
  /\ call.fn = "skipTexture"
  /\ Finish(skipTexture(Caller))

CallSkipShadowMap ==
  /\ phase = "Call"
  /\ call.fn = "skipShadowMap"
  /\ Finish(skipShadowMap(Caller))

CallSkipBSPTree ==
  /\ phase = "Call"
  /\ call.fn = "skipBSPTree"
  /\ Finish(skipBSPTree(Caller))

CallSkipPortalSectorLinks ==
  /\ phase = "Call"
  /\ call.fn = "skipPortalSectorLinks"
  /\ Finish(skipPortalSectorLinks(Caller))

\* readBrushes at line 344, called by parse().
AtDimp == Goto(Call(Caller, "readBrushes", 335, BrushesLocals, 286), 344)

SkipDimp ==
  /\ phase = "Call"
  /\ call.fn = "DIMP"
  /\ Finish(Step(Step(AtDimp)))

SkipNext ==
  \/ CallSkipTexture
  \/ CallSkipShadowMap
  \/ CallSkipBSPTree
  \/ CallSkipPortalSectorLinks
  \/ SkipDimp

SkipInit ==
  /\ call \in {[fn |-> fn, id |-> <<>>, length |-> 0] : fn \in Skips}
  /\ buffer \in SkipBuffers(call.fn)
  /\ position = 0
  /\ world = DefaultWorld
  /\ log = <<>>
  /\ phase = "Call"
  /\ error = NoErr
  /\ returned = <<>>
  /\ raised = NoErr
  /\ readLo = 0
  /\ readHi = -1
  /\ scanStart = -1
  /\ absorbed = 0

SkipSpec == SkipInit /\ [][SkipNext]_vars

(***************************************************************************)
(* The decoders of single records, each called on a buffer that holds one  *)
(* record, the cursor at its first byte.  A call of readBrushPolygon has   *)
(* the arguments version and vertices.                                     *)
(***************************************************************************)
\* Triangle-vertex indices: inside a list of two vertices, and outside it.
VertexIndices == {-1, 0, 1, 5}

IndexLists ==
  {<<>>} \cup {<<a>> : a \in VertexIndices}
    \cup {<<a, b>> : a, b \in VertexIndices}
    \cup {<<1, a, b>> : a, b \in VertexIndices}

RECURSIVE LE32s(_)
\* The bytes of a list of 32-bit integers.
LE32s(l) == IF l = <<>> THEN <<>> ELSE LE32(l[1]) \o LE32s(Tail(l))

\* A record, whole or without its last byte.
OrCut(b) == {b, SubSeq(b, 1, Len(b) - 1)}

PolygonBuffers(version) ==
  IF version >= 4
    THEN UNION {OrCut(PolygonV4(LE32s(tv), LE32s(te), sm)) :
                  tv \in IndexLists, te \in {<<>>, <<0, 1, 7>>},
                  sm \in {<<>>, FourCC.SHMP \o LE32(2) \o Fill(2)}}
  ELSE IF version >= 2
    THEN UNION {OrCut(LE32(0) \o <<255, 0, 0, 255>> \o LE32(5)
                        \o TextureSlot(n) \o TextureSlot(0) \o TextureSlot(0)
                        \o Fill(8) \o LE32(ec) \o Fill(4 * ec) \o sm
                        \o LE32(7)) :
                  n \in {0, 2}, ec \in 0..1,
                  sm \in {<<>>, FourCC.SHMP \o LE32(2) \o Fill(2)}}
  ELSE UNION {OrCut(LE32(0) \o LE32(ec) \o Fill(4 * ec) \o sm \o <<0>>) :
                ec \in 0..1,
                sm \in {<<>>, FourCC.SHMP \o LE32(2) \o Fill(2)}}

\* The vertex that readBrushSector makes of the bytes Vertex(k).
Vector3(k) == [x |-> F64(k), y |-> F64(k + 1), z |-> F64(k + 2)]

VertexLists == {<<>>, <<Vector3(1), Vector3(4)>>}

PolygonCalls ==
  {[fn |-> "readBrushPolygon", line |-> 584,
     args |-> [version |-> v, vertices |-> l]] :
     v \in 0..4, l \in VertexLists}

\* Dictionaries: of one name, of two, of none, of a name of length 0, without
\* the end tag, and with a count that no buffer holds.
Dictionaries ==
  {Dictionary,
   FourCC.DICT \o LE32(2) \o LE32(1) \o <<97>> \o LE32(1) \o <<98>>
     \o FourCC.DEND,
   FourCC.DICT \o LE32(0) \o FourCC.DEND,
   FourCC.DICT \o LE32(1) \o LE32(0) \o FourCC.DEND,
   FourCC.DICT \o LE32(1) \o LE32(2) \o <<116, 49>>,
   FourCC.DICT \o LE32(1000) \o LE32(2) \o <<116, 49>> \o FourCC.DEND}

\* A DPOS chunk that gives the offset P, after 0 or 3 bytes, and before a
\* dictionary that may follow other bytes; P is any offset from -1 to one
\* past the end.
DposBuffers ==
  UNION {{pre \o FourCC.DPOS \o LE32(P) \o gap \o d :
            P \in -1..(Len(pre) + 8 + Len(gap) + Len(d) + 1)} :
           pre \in {<<>>, Fill(3)}, gap \in {<<>>, FourCC.WSTA \o Fill(1)},
           d \in Dictionaries \cup {<<>>}}

\* The DPOS chunk is at the cursor.
DposCalls ==
  IF SubSeq(buffer, position + 1, position + 4) = FourCC.DPOS
    THEN {[fn |-> "readBrushes", line |-> 354, args |-> <<>>],
          [fn |-> "readState", line |-> 856, args |-> <<>>]}
  ELSE {}

RECURSIVE RunBlock(_, _, _, _)
\* The steps from s until method fn is at line pc or the caller is running
\* again: at most 8^n of them.
RunBlock(s, fn, pc, n) ==
  IF s.fn = "parse" \/ (s.fn = fn /\ s.pc = pc) THEN s
  ELSE IF n = 0 THEN Step(s)
  ELSE LET a == RunBlock(s, fn, pc, n - 1)
           b == RunBlock(a, fn, pc, n - 1)
           c == RunBlock(b, fn, pc, n - 1)
           d == RunBlock(c, fn, pc, n - 1)
           e == RunBlock(d, fn, pc, n - 1)
           f == RunBlock(e, fn, pc, n - 1)
           g == RunBlock(f, fn, pc, n - 1)
           h == RunBlock(g, fn, pc, n - 1)
       IN <<a, b, c, d, e, f, g, h>>[8]

\* Lines 353-363 of readBrushes: the DPOS chunk.  readBrushes goes on at line
\* 365 with the value of dictionaryEndPosition.
BrushesDpos ==
  /\ phase = "Call"
  /\ call.fn = "readBrushes"
  /\ call.line = 354
  /\ Finish(RunBlock(Goto(Call(Caller, "readBrushes", 335, BrushesLocals,
                               286),
                          354),
                     "readBrushes", 365, RunDepth))

\* Buffers of WSTA chunks and dictionaries, in any order.
ScanPieces ==
  {<<>>, FourCC.WSTA, Dictionary, Fill(1),
   FourCC.WSTA \o LE32(1) \o LE32(0)}

ScanBuffers == {a \o b \o c : a, b, c \in ScanPieces}

\* The scan for WSTA with each value dictionaryEndPosition can have: -1, or
\* an offset right after a DEND.
ScanCalls ==
  {[fn |-> "readBrushes", line |-> 376, args |-> [dictionaryEndPosition |-> e]] :
     e \in {-1} \cup {q \in 4..Len(buffer) :
                        SubSeq(buffer, q - 3, q) = FourCC.DEND}}

\* Lines 376-390 of readBrushes: the jump to the end of the dictionary and
\* the scan for WSTA.
BrushesScan ==
  /\ phase = "Call"
  /\ call.fn = "readBrushes"
  /\ call.line = 376
  /\ Finish(RunCall(Goto(Call(Caller, "readBrushes", 335,
                              [BrushesLocals EXCEPT !.dictionaryEndPosition =
                                 call.args.dictionaryEndPosition],
                              293),
                         376),
                    RunDepth))

\* WLIF records: with or without DTRS, a name length and a description
\* length around 0 and around their limits, each payload present exactly when
\* its length is inside the limits; whole, or without the last byte.
NameLengths == {-1, 0, 2, 999, 1000}

DescriptionLengths == {-1, 0, 3, 9999, 10000}

Payload(n, limit) == IF n > 0 /\ n < limit THEN Fill(n) ELSE <<>>

WorldInfoBuffers ==
  UNION {OrCut(FourCC.WLIF \o tag \o LE32(nl) \o Payload(nl, 1000)
                 \o LE32(15) \o LE32(dl) \o Payload(dl, 10000)) :
           tag \in {<<>>, FourCC.DTRS}, nl \in NameLengths,
           dl \in DescriptionLengths}

\* The world of a second call: the first has set the three fields.
WorldWithInfo ==
  [DefaultWorld EXCEPT !.name = <<72, 105>>, !.description = <<77, 121>>,
                       !.spawnFlags = U32(0, 7)]

CallReadWorldInfo ==
  /\ phase = "Call"
  /\ call.fn = "readWorldInfo"
  /\ Finish(RunCall(Call(Caller, "readWorldInfo", 812, <<>>, 293), RunDepth))

\* BRMP records of one sector.  The sector has a version from 0 to 4, a name
\* length of 0, 1 or 1000 when it has a name, up to 2 vertices and up to one
\* plane and edge, and one polygon of bpoVersion 1; its tags are in place,
\* or one is damaged, or PLNs and EDGs are exchanged.  BREN follows, or
\* nothing.
SectorTags ==
  {<<FourCC.VTXs, FourCC.PLNs, FourCC.EDGs, FourCC.BPOs>>,
   <<Fill(4), FourCC.PLNs, FourCC.EDGs, FourCC.BPOs>>,
   <<FourCC.VTXs, Fill(4), FourCC.EDGs, FourCC.BPOs>>,
   <<FourCC.VTXs, FourCC.PLNs, Fill(4), FourCC.BPOs>>,
   <<FourCC.VTXs, FourCC.PLNs, FourCC.EDGs, Fill(4)>>,
   <<FourCC.VTXs, FourCC.EDGs, FourCC.PLNs, FourCC.BPOs>>}

SectorRecord(version, nameLength, vertexCount, planeCount, tags) ==
  FourCC.BSC \o LE32(version)
    \o (IF version >= 1 THEN LE32(nameLength) \o Payload(nameLength, 1000)
        ELSE <<>>)
    \o LE32(1) \o LE32(2) \o LE32(3)
    \o (IF version >= 2 THEN LE32(4) ELSE <<>>)
    \o (IF version >= 3 THEN LE32(5) ELSE <<>>)
    \o tags[1] \o LE32(vertexCount)
    \o (IF vertexCount >= 1 THEN Vertex(1) ELSE <<>>)
    \o (IF vertexCount >= 2 THEN Vertex(4) ELSE <<>>)
    \o tags[2] \o LE32(planeCount) \o Fill(32 * planeCount)
    \o tags[3] \o LE32(planeCount) \o Fill(8 * planeCount)
    \o tags[4] \o LE32(1) \o LE32(1) \o PolygonV1

MipBuffers ==
  {FourCC.BRMP \o DefaultMaxDistance \o LE32(1)
     \o SectorRecord(v, nl, vc, pc, tags) \o end :
     v \in 0..4, nl \in {0, 1, 1000}, vc \in 0..2, pc \in 0..1,
     tags \in SectorTags, end \in {FourCC.BREN, <<>>}}

CallReadBrushMip ==
  /\ phase = "Call"
  /\ call.fn = "readBrushMip"
  /\ Finish(RunCall(Call(Caller, "readBrushMip", 463, MipLocals, 293),
                    RunDepth))

\* Lines 855-865 of readState: the DPOS chunk.  readState goes on at line 867
\* with the value of stateDictionaryEndPosition.
StateDpos ==
  /\ phase = "Call"
  /\ call.fn = "readState"
  /\ call.line = 856
  /\ Finish(RunBlock(Goto(Call(Caller, "readState", 846, StateLocals, 288),
                          856),
                     "readState", 867, RunDepth))

CallReadBrushPolygon ==
  /\ phase = "Call"
  /\ call.fn = "readBrushPolygon"
  /\ Finish(RunCall(Call(Caller, "readBrushPolygon", 584,
                         PolygonLocals(call.args.version, call.args.vertices),
                         293),
                    RunDepth))

\* The four chunk ids that end the byte-step of skipSingleTerrain.
TerrainMarkers == {FourCC.TREN, FourCC.TRRN, FourCC.EOTA, FourCC.DPOS}

\* A TRRN record up to its maps: a name of nl bytes, a height map and an edge
\* map of sx * sy cells.
TerrainRecord(nl, sx, sy) ==
  FourCC.TRRN \o LE32(1) \o LE32(nl) \o Payload(nl, 1000) \o Fill(8)
    \o LE32(sx) \o LE32(sy)
    \o (IF sx > 0 /\ sy > 0 THEN Fill(3 * sx * sy) ELSE <<>>)

\* Bytes between the maps and the next chunk: none, one, or the first three
\* letters of TREN.
TerrainJunk == {<<>>, Fill(1), <<84, 82, 69>>}

\* Terrains followed by one of the four chunk ids or by none, whole or
\* without the last byte.
TerrainBuffers ==
  UNION {OrCut(TerrainRecord(nl, sx, sy) \o junk \o m \o tail) :
           nl \in {0, 2}, sx \in {0, 1}, sy \in {0, 1}, junk \in TerrainJunk,
           m \in TerrainMarkers \cup {<<>>}, tail \in {<<>>, FourCC.EOTA}}

CallSkipSingleTerrain ==
  /\ phase = "Call"
  /\ call.fn = "skipSingleTerrain"
  /\ Finish(RunCall(Call(Caller, "skipSingleTerrain", 721, TerrainLocals, 293),
                    RunDepth))

\* Terrain archives of a count from -1 to 2 and of at most one terrain, which
\* ends in TREN or in no chunk id; EOTA, WSTA or nothing follows.
ArchiveBuffers ==
  {FourCC.TRAR \o LE32(c) \o t \o e :
     c \in {-1, 0, 1, 2},
     t \in {<<>>, TerrainRecord(0, 0, 0) \o Fill(1) \o FourCC.TREN,
            TerrainRecord(0, 0, 0) \o Fill(2)},
     e \in {<<>>, FourCC.EOTA, FourCC.WSTA \o LE32(1)}}
    \cup {FourCC.WSTA \o LE32(1), Fill(3)}

\* Lines 371-374 of readBrushes: the terrain archive.  readBrushes goes on at
\* line 376.
BrushesTerrain ==
  /\ phase = "Call"
  /\ call.fn = "readBrushes"
  /\ call.line = 371
  /\ Finish(RunBlock(Goto(Call(Caller, "readBrushes", 335, BrushesLocals,
                               286),
                          371),
                     "readBrushes", 376, RunDepth))

RecordNext ==
  \/ CallReadBrushPolygon
  \/ BrushesDpos
  \/ StateDpos
  \/ BrushesScan
  \/ CallReadWorldInfo
  \/ CallReadBrushMip
  \/ CallSkipSingleTerrain
  \/ BrushesTerrain

RecordInit ==
  /\ \/ /\ call \in PolygonCalls
        /\ buffer \in PolygonBuffers(call.args.version)
        /\ position = 0
     \/ /\ buffer \in DposBuffers
        /\ position \in {0, 3}
        /\ call \in DposCalls
     \/ /\ buffer \in ScanBuffers
        /\ position \in 0..Len(buffer)
        /\ call \in ScanCalls
     \/ /\ buffer \in WorldInfoBuffers
        /\ position = 0
        /\ call = [fn |-> "readWorldInfo", line |-> 812, args |-> <<>>]
     \/ /\ buffer \in MipBuffers
        /\ position = 0
        /\ call = [fn |-> "readBrushMip", line |-> 463, args |-> <<>>]
     \/ /\ buffer \in TerrainBuffers
        /\ position = 0
        /\ call = [fn |-> "skipSingleTerrain", line |-> 721, args |-> <<>>]
     \/ /\ buffer \in ArchiveBuffers
        /\ position = 0
        /\ call = [fn |-> "readBrushes", line |-> 371, args |-> <<>>]
  /\ world \in IF call.fn = "readWorldInfo" THEN {DefaultWorld, WorldWithInfo}
               ELSE {DefaultWorld}
  /\ log = <<>>
  /\ phase = "Call"
  /\ error = NoErr
  /\ returned = <<>>
  /\ raised = NoErr
  /\ readLo = 0
  /\ readHi = -1
  /\ scanStart = -1
  /\ absorbed = 0

RecordSpec == RecordInit /\ [][RecordNext]_vars

(***************************************************************************)
(* parse() statement by statement: every step is one group of statements   *)
(* of the method that is running.  call is the activation that runs: its   *)
(* method, line, locals and callers.  The parser runs to its end without   *)
(* being interrupted, so a step that can be taken is taken.                *)
(***************************************************************************)
\* The parser as the variables hold it.
Machine ==
  [pos |-> position, world |-> world, log |-> log, thrown |-> call.thrown,
   exc |-> raised, val |-> call.val, fn |-> call.fn, pc |-> call.pc,
   loc |-> call.loc, stack |-> call.stack, done |-> FALSE, lo |-> readLo,
   hi |-> readHi, scan |-> scanStart, caught |-> absorbed]

\* parse() has returned the world, or has thrown.
Terminal(r) == r.fn = "parse" /\ r.done /\ (r.thrown \/ r.pc = 293)

\* The parser goes from the state the variables hold to r.
StepTo(r) ==
  /\ position' = r.pos
  /\ world' = r.world
  /\ log' = r.log
  /\ readLo' = r.lo
  /\ readHi' = r.hi
  /\ scanStart' = r.scan
  /\ buffer' = buffer
  /\ raised' = r.exc
  /\ absorbed' = r.caught
  /\ call' = [fn |-> r.fn, pc |-> r.pc, loc |-> r.loc, stack |-> r.stack,
              val |-> r.val, thrown |-> r.thrown]
  /\ phase' = IF ~Terminal(r) THEN "Stepping"
              ELSE IF r.thrown THEN "Failed" ELSE "Complete"
  /\ error' = IF Terminal(r) /\ r.thrown THEN r.exc ELSE error
  /\ returned' = IF Terminal(r) /\ ~r.thrown THEN <<r.world>> ELSE <<>>

ParseStep ==
  /\ phase = "Stepping"
  /\ StepTo(Step(Machine))

StepNext == ParseStep

StepInit ==
  /\ \E l \in Layouts(MaxDeviations) :
       \E cut \in 0..Len(Build(l)) :
         /\ cut = Len(Build(l)) \/ Deviations(l) < MaxDeviations
         /\ buffer = SubSeq(Build(l), 1, cut)
  /\ position = 0
  /\ world = DefaultWorld
  /\ log = <<>>
  /\ phase = "Stepping"
  /\ error = NoErr
  /\ returned = <<>>
  /\ raised = NoErr
  /\ readLo = 0
  /\ readHi = -1
  /\ scanStart = -1
  /\ absorbed = 0
  /\ call = [fn |-> "parse", pc |-> 274, loc |-> <<>>, stack |-> <<>>,
             val |-> 0, thrown |-> FALSE]

StepSpec == StepInit /\ [][StepNext]_vars

\* parse() runs to its end without being interrupted: a step that can be
\* taken is taken.  ParseStep can be taken exactly when phase is "Stepping",
\* and then changes the state (StepChangesState), so that this is weak
\* fairness of ParseStep with its enabling condition written out.
Uninterrupted == []<>(phase # "Stepping") \/ []<><<ParseStep>>_vars

LiveSpec == StepSpec /\ Uninterrupted

(***************************************************************************)
(* WldViewer: BrushGeometry makes one mesh of every polygon of at least    *)
(* three vertices in the first mip of each brush.  A mesh is its position  *)
(* attribute, its index and its colour.                                    *)
(***************************************************************************)
RECURSIVE positions(_)
\* for (const vertex of polygon.vertices) vertices.push(vertex.x, vertex.y, vertex.z)
positions(vertices) ==
  IF vertices = <<>> THEN <<>>
  ELSE <<vertices[1].x, vertices[1].y, vertices[1].z>>
         \o positions(Tail(vertices))

RECURSIVE fanThroughLast(_, _)
\* A fan whose loop runs to the last vertex.
fanThroughLast(i, length) ==
  IF i < length THEN <<0, i, i + 1>> \o fanThroughLast(i + 1, length)
  ELSE <<>>

RECURSIVE fanIndices(_, _)
\* for (let i = 1; i < polygon.vertices.length - 1; i++) indices.push(0, i, i + 1)
fanIndices(i, length) ==
  IF i < length - 1 THEN <<0, i, i + 1>> \o fanIndices(i + 1, length)
  ELSE <<>>

\* The body of the loop over the polygons of a sector: the meshes it pushes.
polygonMeshes(polygon) ==
  IF Len(polygon.vertices) < 3 THEN <<>>
  ELSE <<[position |-> positions(polygon.vertices),
          index |-> IF Len(polygon.indices) > 0 THEN polygon.indices
                    ELSE fanIndices(1, Len(polygon.vertices)),
          color |-> polygon.color.hi * 256 + polygon.color.lo \div 256]>>

RECURSIVE sectorMeshes(_)
sectorMeshes(polygons) ==
  IF polygons = <<>> THEN <<>>
  ELSE polygonMeshes(polygons[1]) \o sectorMeshes(Tail(polygons))

RECURSIVE mipMeshes(_)
mipMeshes(sectors) ==
  IF sectors = <<>> THEN <<>>
  ELSE sectorMeshes(sectors[1].polygons) \o mipMeshes(Tail(sectors))

RECURSIVE BrushGeometry(_)
\* if (!brush.mips || brush.mips.length === 0) continue;
\* const firstMip = brush.mips[0];
BrushGeometry(brushes) ==
  IF brushes = <<>> THEN <<>>
  ELSE (IF Len(brushes[1].mips) = 0 THEN <<>>
        ELSE mipMeshes(brushes[1].mips[1].sectors))
         \o BrushGeometry(Tail(brushes))

\* The worlds that are rendered: up to two brushes, each of no mip, of one
\* mip or of two, a mip holding one sector of one or two polygons, a polygon
\* of up to MaxVertices vertices with or without indices.  The indices are
\* triangle elements as readBrushPolygon returns them: unfiltered, so that
\* one may be 7 whatever the number of vertices.
MaxVertices == 5

PolygonOf(n, indices) ==
  [vertices |-> [k \in 1..n |-> Vector3(k)], indices |-> indices,
   color |-> U32(65280, 255), flags |-> U32(0, 5)]

Polygons ==
  {PolygonOf(n, l) :
     n \in 0..MaxVertices, l \in {<<>>, <<0, 1, 2>>, <<0, 1, 7>>}}

SectorOf(polygons) ==
  [name |-> <<115>>, color |-> U32(0, 1), ambient |-> U32(0, 2),
   flags |-> U32(0, 3), vertices |-> <<>>, polygons |-> polygons]

MipOf(polygons) ==
  [maxDistance |-> DefaultMaxDistance, sectors |-> <<SectorOf(polygons)>>]

RenderedBrushes ==
  {[id |-> 0, mips |-> <<>>]}
    \cup {[id |-> 0, mips |-> <<MipOf(<<p>>)>>] : p \in Polygons}
    \cup {[id |-> 0,
           mips |-> <<MipOf(<<PolygonOf(2, <<>>), p>>),
                      MipOf(<<PolygonOf(4, <<>>)>>)>>] :
            p \in Polygons}

Render ==
  /\ phase = "Render"
  /\ phase' = "Rendered"
  /\ returned' = <<BrushGeometry(world.brushes)>>
  /\ UNCHANGED <<buffer, position, world, log, error, raised, readLo, readHi,
                 scanStart, absorbed, call>>

RenderNext == Render

RenderInit ==
  /\ world \in {[DefaultWorld EXCEPT !.brushes = l] :
                  l \in {<<>>} \cup {<<a>> : a \in RenderedBrushes}
                         \cup {<<a, b>> : a, b \in RenderedBrushes}}
  /\ call = [fn |-> "BrushGeometry"]
  /\ buffer = <<>>
  /\ position = 0
  /\ log = <<>>
  /\ phase = "Render"
  /\ error = NoErr
  /\ returned = <<>>
  /\ raised = NoErr
  /\ readLo = 0
  /\ readHi = -1
  /\ scanStart = -1
  /\ absorbed = 0

RenderSpec == RenderInit /\ [][RenderNext]_vars

(***************************************************************************)
(* Properties.                                                             *)
(***************************************************************************)
\* How many events of a level a log holds.
Count(l, level) == Cardinality({i \in 1..Len(l) : l[i].level = level})

\* The log holds an event of this text.
Logged(text) == \E i \in 1..Len(log) : log[i].text = text

\* The four bytes at offset i, as a chunk id of ASCII bytes.
ChunkAt(i) == [k \in 1..4 |-> ByteAt(i + k - 1)]

\* The chunk id lies somewhere in the buffer at or after offset from.
Occurs(id, from) == \E i \in from..(Len(buffer) - 4) : ChunkAt(i) = id

\* C1: in every World that parse() returns, the id of each brush is its
\* index in world.brushes.
BrushIdIsIndex ==
  \A k \in 1..Len(returned) :
    \A i \in 1..Len(returned[k].brushes) : returned[k].brushes[i].id = i - 1

\* C2: in every World that parse() returns, every element of the indices of
\* a polygon is an index into the vertices of the polygon's sector.
IndicesInRange ==
  \A k \in 1..Len(returned) :
    \A b \in 1..Len(returned[k].brushes) :
      \A m \in 1..Len(returned[k].brushes[b].mips) :
        \A c \in 1..Len(returned[k].brushes[b].mips[m].sectors) :
          LET sector == returned[k].brushes[b].mips[m].sectors[c]
          IN \A q \in 1..Len(sector.polygons) :
               \A j \in 1..Len(sector.polygons[q].indices) :
                 /\ sector.polygons[q].indices[j] >= 0
                 /\ sector.polygons[q].indices[j] < Len(sector.vertices)

\* C3: no read returns a byte at an offset outside the buffer, wherever a
\* skip, a seek or a jump has put the position.
NoBufferOverread == readLo >= 0 /\ readHi < Len(buffer)

\* A run that a skip took beyond the end of the buffer, where the next read
\* failed.
OverreadRefused ==
  /\ phase = "Failed"
  /\ position > Len(buffer)
  /\ error.kind = "Truncated"
  /\ readHi < Len(buffer)

\* C4: when no WEND lies between the position and the end of the buffer, the
\* End step logs a warning and parse() returns the world.
MissingWendNotFatal ==
  [][phase = "End" /\ ~Occurs(FourCC.WEND, position)
       => /\ phase' = "Complete"
          /\ returned' = <<world'>>
          /\ Count(log', "warn") > Count(log, "warn")]_vars

\* C5: whatever fails while BrushesSection probes or decodes its optional
\* elements, the scan for WSTA is reached: BrushesSection fails with
\* WstaNotFound and with no other error.
BrushesSectionFailsOnlyWithoutWsta ==
  [][phase = "BrushesSection" /\ phase' = "Failed"
       => error'.kind = "WstaNotFound"]_vars

\* C6: a run of parse() that fails delivers exactly one error event, and that
\* event carries the message of the error thrown.
OneErrorEventPerFailure ==
  phase = "Failed"
    => /\ Count(log, "error") = 1
       /\ \E i \in 1..Len(log) : log[i].level = "error" /\ log[i].err = error

\* C7: the error of an expectChunkID that found another chunk id carries the
\* expected id, the actual id and the position.
UnexpectedChunkCarriesPosition ==
  phase = "Failed" /\ error.kind = "UnexpectedChunk"
    => {"expected", "actual", "position"} \subseteq error.carries

\* C8: when the scan of BrushesSection has started and no WSTA lies between
\* its start and the end of the buffer, parse() has failed with WstaNotFound
\* and has returned no world.
NoWstaIsFatal ==
  scanStart >= 0 /\ ~Occurs(FourCC.WSTA, scanStart)
    => phase = "Failed" /\ error.kind = "WstaNotFound" /\ returned = <<>>

\* The run on the buffer WRLD WEND: the scan started after WRLD and failed.
NoWstaInWrldWend ==
  /\ buffer = FourCC.WRLD \o FourCC.WEND
  /\ scanStart = 4
  /\ phase = "Failed"
  /\ error.kind = "WstaNotFound"

\* C9: when readEngineVersion or the readWorldInfo of BrushesSection has
\* caught a failure, the fields it sets are at their defaults.
AbsorbedFailureLeavesDefaults ==
  /\ Logged("Could not read engine version, continuing anyway")
       => world.engineBuild = <<>> /\ world.engineVersion = <<>>
  /\ phase = "StateSection" /\ Logged("Could not read world info")
       => /\ world.name = <<>>
          /\ world.spawnFlags = U32(0, 0)
          /\ world.description = <<>>

\* C10: StateSection always goes on to the End step; when something failed
\* in it, it has logged a warning, and backgroundColor is 0 unless it was
\* read.
StateFailureAbsorbed ==
  [][phase = "StateSection"
       => /\ phase' = "End"
          /\ raised' # NoErr
               => /\ Count(log', "warn") > Count(log, "warn")
                  /\ (\A i \in 1..Len(log') : log'[i].text # "Background color")
                       => world'.backgroundColor = U32(0, 0)]_vars

\* A run whose StateSection failed before the read of backgroundColor.
StateFailedBeforeColor ==
  /\ phase = "End"
  /\ raised # NoErr
  /\ Logged("Could not fully read world state")
  /\ ~Logged("Background color")
  /\ world.backgroundColor = U32(0, 0)

\* The buffer starts with this chunk id.
StartsWith(id) == Len(buffer) >= 4 /\ SubSeq(buffer, 1, 4) = id

\* C11: in every World that parse() returns: when the buffer does not start
\* with BUIV, engineBuild and engineVersion are unset; when no BRAR was
\* decoded, brushes is empty; when no WLIF was met, neither before the brush
\* archive nor after WSTA, name and description are empty and spawnFlags is 0.
AbsentChunksLeaveDefaults ==
  \A k \in 1..Len(returned) :
    /\ ~StartsWith(FourCC.BUIV)
         => returned[k].engineBuild = <<>> /\ returned[k].engineVersion = <<>>
    /\ ~Logged("Reading brush archive (BRAR)") => returned[k].brushes = <<>>
    /\ ~Logged("Reading world info (WLIF)")
         => /\ returned[k].name = <<>>
            /\ returned[k].description = <<>>
            /\ returned[k].spawnFlags = U32(0, 0)

\* A returned world of a buffer with no BUIV, no BRAR and no WLIF.
ReturnedWithoutOptionalChunks ==
  /\ phase = "Complete"
  /\ returned # <<>>
  /\ ~StartsWith(FourCC.BUIV)
  /\ ~Occurs(FourCC.BRAR, 0)
  /\ ~Occurs(FourCC.WLIF, 0)
  /\ ~Logged("Reading brush archive (BRAR)")
  /\ ~Logged("Reading world info (WLIF)")

\* C12: in every state of parse() and in every World it returns,
\* engineVersion is set only if engineBuild is set.
VersionOnlyWithBuild ==
  /\ world.engineVersion # <<>> => world.engineBuild # <<>>
  /\ \A k \in 1..Len(returned) :
       returned[k].engineVersion # <<>> => returned[k].engineBuild # <<>>

\* A returned world whose VERC text was decoded.
ReturnedWithVersion ==
  /\ phase = "Complete"
  /\ returned # <<>>
  /\ returned[1].engineVersion = <<<<97, 98>>>>
  /\ returned[1].engineBuild = <<42>>

\* The layouts [BUIV build [VERC len text]] WRLD [WLIF nameLen name
\* spawnFlags descLen desc] WSTA version bg WEND, every length above 0.
ShapedLayouts ==
  {[PlainLayout EXCEPT !.hdr = h, !.info = i] : h \in {0, 1, 2}, i \in {0, 1}}

\* What the buffer of a shaped layout encodes: build 42, version text "ab",
\* name "Hi", spawnFlags 0x0F, description "My", backgroundColor 0x00FF0000.
EncodedWorld(l) ==
  [name |-> IF l.info = 1 THEN <<72, 105>> ELSE <<>>,
   description |-> IF l.info = 1 THEN <<77, 121>> ELSE <<>>,
   backgroundColor |-> [hi |-> 255, lo |-> 0],
   entities |-> <<>>,
   brushes |-> <<>>,
   spawnFlags |-> IF l.info = 1 THEN [hi |-> 0, lo |-> 15]
                  ELSE [hi |-> 0, lo |-> 0],
   engineVersion |-> IF l.hdr = 2 THEN << <<97, 98>> >> ELSE <<>>,
   engineBuild |-> IF l.hdr \in {1, 2} THEN <<42>> ELSE <<>>]

FirstAt(id, from) ==
  CHOOSE p \in from..(Len(buffer) - 4) :
    ChunkAt(p) = id /\ \A q \in from..(p - 1) : ChunkAt(q) # id

\* C14: findChunkInFile(id) returns the smallest offset p, from the position
\* to size - 4, whose four bytes are id, and -1 exactly when there is none.
FindReturnsFirstOccurrence ==
  [][phase = "Call" /\ call.fn = "findChunkInFile"
       => /\ phase' = "Returned"
          /\ returned' = <<IF Occurs(call.id, position)
                             THEN FirstAt(call.id, position)
                           ELSE -1>>]_vars

\* C15: findChunkInFile changes nothing but the position: when it returns -1
\* the position is what it was, otherwise the position is the offset
\* returned; the world and the log are as they were.
FindMovesOnlyCursor ==
  [][phase = "Call" /\ call.fn = "findChunkInFile"
       => /\ phase' = "Returned"
          /\ world' = world
          /\ log' = log
          /\ IF returned' = <<-1>> THEN position' = position
             ELSE position' = returned'[1]]_vars

\* A call that found the chunk id past the start of the buffer and left the
\* position on it.
FoundNotConsumed ==
  /\ phase = "Returned"
  /\ call.fn = "findChunkInFile"
  /\ returned = <<position>>
  /\ position > 0
  /\ ChunkAt(position) = call.id
  /\ log = <<>>

\* C16: skipToWEND leaves the position at the smallest offset, at or after
\* where it started, whose four bytes are WEND; when there is none it leaves
\* the position at or past the end of the buffer.
SkipStopsAtWendOrEof ==
  [][phase = "Call" /\ call.fn = "skipToWEND"
       => /\ phase' = "Returned"
          /\ IF Occurs(FourCC.WEND, position)
               THEN position' = FirstAt(FourCC.WEND, position)
             ELSE position' >= Len(buffer)]_vars

\* C19: readString(length) fails with InvalidLength when length is below 0 or
\* above 1,000,000, fails with Truncated when position + length is past the
\* end of the buffer, and otherwise returns the length bytes at the position
\* and moves the position by length.
ReadStringContract ==
  [][phase = "Call" /\ call.fn = "readString"
       => IF call.length < 0 \/ call.length > 1000000
            THEN phase' = "Threw" /\ error'.kind = "InvalidLength"
          ELSE IF position + call.length > Len(buffer)
            THEN phase' = "Threw" /\ error'.kind = "Truncated"
          ELSE /\ phase' = "Returned"
               /\ returned'
                    = <<SubSeq(buffer, position + 1, position + call.length)>>
               /\ position' = position + call.length]_vars

\* C19, with the position taken into account: as above, except that with the
\* position below 0 the read fails with the range error of the byte view
\* instead of returning bytes.
ReadStringContractFromZero ==
  [][phase = "Call" /\ call.fn = "readString"
       => IF call.length < 0 \/ call.length > 1000000
            THEN phase' = "Threw" /\ error'.kind = "InvalidLength"
          ELSE IF position + call.length > Len(buffer)
            THEN phase' = "Threw" /\ error'.kind = "Truncated"
          ELSE IF position < 0
            THEN phase' = "Threw" /\ error' = RangeError
          ELSE /\ phase' = "Returned"
               /\ returned'
                    = <<SubSeq(buffer, position + 1, position + call.length)>>
               /\ position' = position + call.length]_vars

\* A call that returned three bytes from the middle of the buffer.
ReadFromTheMiddle ==
  /\ phase = "Returned"
  /\ call.fn = "readString"
  /\ call.length = 3
  /\ position > 3
  /\ returned = <<SubSeq(buffer, position - 2, position)>>
  /\ readHi = position - 1

\* The line of parse() at which each section starts.
SectionLine ==
  [EngineVersion |-> 274, WorldRoot |-> 278, BrushesSection |-> 285,
   StateSection |-> 287, End |-> 289]

\* The section that starts in this state, run with a sink that has kept none
\* of the earlier events.
ReplayedWithoutLog ==
  LET r == Run([Resume(SectionLine[phase]) EXCEPT !.log = <<>>], RunDepth)
  IN /\ position' = r.pos
     /\ readLo' = r.lo
     /\ readHi' = r.hi
     /\ scanStart' = r.scan
     /\ world' = r.world
     /\ (phase' = "Failed") = r.thrown
     /\ r.thrown => error' = r.exc
     /\ returned' = IF phase' = "Complete" THEN <<r.world>> ELSE <<>>
     /\ log' = log \o r.log

CatchWarnings ==
  {"Could not read engine version, continuing anyway",
   "Could not skip BSP tree", "Could not skip portal-sector links",
   "Could not read sector", "Could not read brush mip", "Could not read brush",
   "Could not fully read brush archive", "Could not skip single terrain",
   "Could not skip terrain archive", "Could not read dictionary",
   "Could not read world info", "Could not fully read world state"}

\* C20: every decode failure that a catch block absorbs appends at least one
\* warn event to the log: the log holds at least as many warn events of catch
\* blocks as exceptions were absorbed.
WarnPerAbsorbedFailure ==
  Cardinality({i \in 1..Len(log) :
                 log[i].level = "warn" /\ log[i].text \in CatchWarnings})
    >= absorbed

\* The section that follows each section of parse().
NextSection ==
  [EngineVersion |-> "WorldRoot", WorldRoot |-> "BrushesSection",
   BrushesSection |-> "StateSection", StateSection |-> "End",
   End |-> "Complete"]

\* C21: log events are appended in decoder-visit order.  The sections run in
\* the order EngineVersion, WorldRoot, BrushesSection, StateSection, End, and
\* each leaves the earlier events in place and appends its own after them.
\* The last event is the success event 'Successfully parsed WLD file' exactly
\* when the run ends Complete and is an error event exactly when it ends
\* Failed.
EventsInVisitOrder ==
  [][/\ phase \in DOMAIN NextSection
     /\ phase' \in {NextSection[phase], "Failed"}
     /\ Len(log') > Len(log)
     /\ SubSeq(log', 1, Len(log)) = log
     /\ (phase' = "Complete")
          = (log'[Len(log')].level = "success"
             /\ log'[Len(log')].text = "Successfully parsed WLD file")
     /\ (phase' = "Failed") = (log'[Len(log')].level = "error")]_vars

\* parse() returned after events of every section.
EveryDecoderLogged ==
  /\ phase = "Complete"
  /\ Logged("Reading engine version header")
  /\ Logged("Found WRLD chunk")
  /\ Logged("Reading brushes section")
  /\ Logged("Reading world state (WSTA)")
  /\ Logged("Successfully parsed WLD file")

\* The offset right after the size field of the skip that is called, whether
\* the buffer holds the whole field, and the field's value.
AfterSize == Len(BeforeSize[call.fn]) + 4

SizeRead == Len(buffer) >= AfterSize

SizeField == I32At(AfterSize - 4)

\* C22: when the size or count field of a size-based skip lies outside its
\* envelope, the skip is abandoned with the cursor right after the size field,
\* and a warn event is logged.
OutsideEnvelopeWarns ==
  [][(/\ phase = "Call"
      /\ SizeRead
      /\ ~(SizeField > 0 /\ SizeField < Envelope[call.fn]))
       => /\ position' = AfterSize
          /\ Count(log', "warn") > Count(log, "warn")]_vars

\* The envelopes the claim gives, the bytes by which a size field advances
\* the cursor, and the bytes each skip consumes after the sized block: the
\* three fixed fields of a texture slot, the PSLE tag if it is read.
StatedEnvelope ==
  [skipTexture |-> 10000000, skipShadowMap |-> 10000000,
   skipBSPTree |-> 1000000, skipPortalSectorLinks |-> 100000000]

Advance(fn, size) == IF fn = "skipBSPTree" THEN size * 48 ELSE size

Trailer ==
  [skipTexture |-> {32}, skipShadowMap |-> {0}, skipBSPTree |-> {0},
   skipPortalSectorLinks |-> {0, 4}]

\* C23: a size field is honoured, the cursor being advanced by it, exactly
\* when 0 < size < ENVELOPE, ENVELOPE being 10,000,000 for shadow maps and
\* texture-slot filenames, 100,000,000 for PSLS and 1,000,000 for the BSP
\* node count, which advances by nodeCount * 48.
HonouredInsideStatedEnvelope ==
  [][(/\ phase = "Call"
      /\ call.fn \in DOMAIN StatedEnvelope
      /\ SizeRead)
       => LET honoured == SizeField > 0 /\ SizeField < StatedEnvelope[call.fn]
              advance == IF honoured THEN Advance(call.fn, SizeField) ELSE 0
          IN position' - AfterSize
               \in {advance + n : n \in Trailer[call.fn]}]_vars

\* C24: a size-based skip does not move the cursor past the end of the
\* buffer: after it the position is at most the size.
SkipStaysInBuffer ==
  [][phase = "Call" => position' <= Len(buffer)]_vars

\* The triangle-vertex list and the triangle-element list of the polygon
\* record in the buffer: each is a count and as many 32-bit integers.  The
\* count of the first is 12 bytes before the end of a record whose lists and
\* shadow map are empty.
ListAt(p) == [k \in 1..I32At(p) |-> I32At(p + 4 * k)]

TriangleVertices ==
  IF call.args.version >= 4
    THEN ListAt(Len(PolygonV4(<<>>, <<>>, <<>>)) - 12)
  ELSE <<>>

TriangleElements ==
  IF call.args.version >= 4
    THEN ListAt(Len(PolygonV4(<<>>, <<>>, <<>>)) - 8
                  + 4 * Len(TriangleVertices))
  ELSE <<>>

InRange == SelectSeq(TriangleVertices,
                     LAMBDA t : t >= 0 /\ t < Len(call.args.vertices))

\* C25: the vertices of a polygon produced from the vertex list V and the
\* read triangle-vertex list T are the V[t] for the t of T with
\* 0 <= t < |V|, in the order of T, the others dropped with no warn event:
\* so there are at most |T| of them.  Its indices are the read
\* triangle-element list.
PolygonVerticesResolved ==
  [][(/\ phase = "Call"
      /\ call.fn = "readBrushPolygon"
      /\ phase' = "Returned"
      /\ returned' # << <<>> >>)
       => LET polygon == returned'[1][1]
          IN /\ Len(polygon.vertices) = Len(InRange)
             /\ \A k \in 1..Len(InRange) :
                  polygon.vertices[k] = call.args.vertices[InRange[k] + 1]
             /\ Len(polygon.vertices) <= Len(TriangleVertices)
             /\ polygon.indices = TriangleElements
             /\ Count(log', "warn") = 0]_vars

\* A polygon of two vertices was returned from a list of three indices: an
\* index out of range was dropped.
IndexDropped ==
  /\ phase = "Returned"
  /\ call.fn = "readBrushPolygon"
  /\ returned # << <<>> >>
  /\ Len(TriangleVertices) = 3
  /\ returned[1][1].vertices = <<Vector3(4), Vector3(1)>>
  /\ returned[1][1].indices = <<0, 1, 7>>

RECURSIVE Flatten(_)
\* The concatenation of a sequence of sequences.
Flatten(l) == IF l = <<>> THEN <<>> ELSE l[1] \o Flatten(Tail(l))

\* The polygons of the first mip of every brush of the world, and those of
\* them that have at least three vertices.
FirstMipPolygons ==
  Flatten([b \in 1..Len(world.brushes) |->
             IF world.brushes[b].mips = <<>> THEN <<>>
             ELSE Flatten([k \in 1..Len(world.brushes[b].mips[1].sectors) |->
                             world.brushes[b].mips[1].sectors[k].polygons])])

Drawable == SelectSeq(FirstMipPolygons, LAMBDA p : Len(p.vertices) >= 3)

\* C26: a polygon of n >= 3 vertices and empty indices is rendered as the
\* n - 2 fan triangles (0, i, i + 1), 1 <= i <= n - 2, every index below n;
\* a polygon of fewer than 3 vertices produces no mesh.
FanTriangulation ==
  phase = "Rendered"
    => /\ Len(returned[1]) = Len(Drawable)
       /\ \A k \in 1..Len(Drawable) :
            LET n == Len(Drawable[k].vertices)
                index == returned[1][k].index
            IN Drawable[k].indices = <<>>
                 => /\ Len(index) = 3 * (n - 2)
                    /\ \A i \in 1..(n - 2) :
                         /\ index[3 * i - 2] = 0
                         /\ index[3 * i - 1] = i
                         /\ index[3 * i] = i + 1
                    /\ \A j \in 1..Len(index) : index[j] < n

\* A world of a polygon of two vertices and one of five without indices was
\* rendered as one mesh of three triangles.
FanOfFive ==
  /\ phase = "Rendered"
  /\ Len(FirstMipPolygons) = 2
  /\ Len(FirstMipPolygons[1].vertices) = 2
  /\ Len(FirstMipPolygons[2].vertices) = 5
  /\ FirstMipPolygons[2].indices = <<>>
  /\ Len(returned[1]) = 1
  /\ returned[1][1].index = <<0, 1, 2, 0, 2, 3, 0, 3, 4>>

RECURSIVE NamesEnd(_, _)
\* The offset after count file names that start at p, each a 32-bit length
\* and, when 0 < length < 500, as many bytes; -1 if the buffer ends first.
NamesEnd(p, count) ==
  IF count <= 0 THEN p
  ELSE IF ~InBounds(p, 4) THEN -1
  ELSE IF I32At(p) > 0 /\ I32At(p) < 500
    THEN (IF InBounds(p + 4, I32At(p))
            THEN NamesEnd(p + 4 + I32At(p), count - 1)
          ELSE -1)
  ELSE NamesEnd(p + 4, count - 1)

\* The offset after the DEND of the dictionary at P: DICT, a count, the file
\* names, DEND; -1 if there is no such dictionary at P.
DictionaryEndAt(P) ==
  IF InBounds(P, 8) /\ ChunkAt(P) = FourCC.DICT
    THEN LET e == NamesEnd(P + 8, I32At(P + 4))
         IN IF e # -1 /\ InBounds(e, 4) /\ ChunkAt(e) = FourCC.DEND
              THEN e + 4
            ELSE -1
  ELSE -1

\* C27: after the DPOS handling of readBrushes and of readState the cursor is
\* C, the position right after the 32-bit offset field of DPOS, whether
\* readDictionary succeeded or failed and whatever the offset P was;
\* dictionaryEnd is captured only when DICT, every file name and DEND were
\* decoded at P, and is then the position right after DEND.
CursorRestoredAfterDpos ==
  [][(phase = "Call" /\ call.line \in {354, 856})
       => /\ phase' = "Running"
          /\ position' = position + 8
          /\ returned' = <<DictionaryEndAt(I32At(position + 4))>>]_vars

\* A dictionary that lies further on was read and the cursor is back at C.
DictionaryReadAhead ==
  /\ phase = "Running"
  /\ call.fn = "readBrushes"
  /\ call.line = 354
  /\ returned # <<-1>>
  /\ returned[1] > position + 4
  /\ ChunkAt(returned[1] - 4) = FourCC.DEND
  /\ ChunkAt(position) = FourCC.WSTA

\* Where the scan for WSTA starts: at dictionaryEndPosition when that was
\* captured, and at the cursor otherwise.
ScanFrom ==
  IF call.args.dictionaryEndPosition # -1
    THEN call.args.dictionaryEndPosition
  ELSE position

\* C28: the scan for WSTA of readBrushes starts at dictionaryEnd when a
\* dictionary end was captured and otherwise at the cursor left by the
\* earlier steps, and the WSTA offset selected is the first occurrence at or
\* after that start; an occurrence before the start is not selected.  When
\* none is selected, the scanned range holds none.
WstaScanStartsAtDictionaryEnd ==
  [][(phase = "Call" /\ call.line = 376)
       => /\ scanStart' = ScanFrom
          /\ phase' \in {"Returned", "Threw"}
          /\ phase' = "Returned"
               => /\ Occurs(FourCC.WSTA, ScanFrom)
                  /\ position' = FirstAt(FourCC.WSTA, ScanFrom)
          /\ phase' = "Threw"
               => /\ error' = WstaNotFoundError
                  /\ \A i \in ScanFrom..(Len(buffer) - 5) :
                       ChunkAt(i) # FourCC.WSTA]_vars

\* The dictionary lies after a WSTA: the scan selected a WSTA after the
\* dictionary, not the one before it.
EarlierWstaNotSelected ==
  /\ phase = "Returned"
  /\ call.line = 376
  /\ call.args.dictionaryEndPosition # -1
  /\ \E i \in 0..(call.args.dictionaryEndPosition - 4) :
       ChunkAt(i) = FourCC.WSTA
  /\ position >= call.args.dictionaryEndPosition
  /\ ChunkAt(position) = FourCC.WSTA

\* The fields of the WLIF record at the cursor: where nameLength is, whether
\* each length is inside its limits, and where the fields after the name are.
NameLengthAt ==
  IF ChunkAt(position + 4) = FourCC.DTRS THEN position + 8 ELSE position + 4

NameRead == I32At(NameLengthAt) > 0 /\ I32At(NameLengthAt) < 1000

SpawnFlagsAt == NameLengthAt + 4 + (IF NameRead THEN I32At(NameLengthAt) ELSE 0)

DescriptionRead ==
  I32At(SpawnFlagsAt + 4) > 0 /\ I32At(SpawnFlagsAt + 4) < 10000

\* C29: readWorldInfo reads the name payload only when 0 < nameLength < 1000
\* and the description payload only when 0 < descLength < 10000; for a length
\* outside, the field keeps its value and no payload byte is consumed;
\* spawnFlags is read from the next 4 bytes in either case.  (Stated of the
\* calls in which no read failed.)
WorldInfoLengthsChecked ==
  [][(phase = "Call" /\ call.fn = "readWorldInfo" /\ absorbed' = absorbed)
       => /\ world'.name =
               IF NameRead
                 THEN Decode(SubSeq(buffer, NameLengthAt + 5, SpawnFlagsAt))
               ELSE world.name
          /\ world'.spawnFlags = U32At(SpawnFlagsAt)
          /\ world'.description =
               IF DescriptionRead
                 THEN Decode(SubSeq(buffer, SpawnFlagsAt + 9,
                                    SpawnFlagsAt + 8 + I32At(SpawnFlagsAt + 4)))
               ELSE world.description
          /\ position' = SpawnFlagsAt + 8
               + (IF DescriptionRead THEN I32At(SpawnFlagsAt + 4) ELSE 0)]_vars

\* A second call whose name length is 1000 and whose description has 9999
\* bytes: the name is kept, the spawn flags and the description are read.
NameKeptDescriptionRead ==
  /\ phase = "Returned"
  /\ call.fn = "readWorldInfo"
  /\ absorbed = 0
  /\ I32At(4) = 1000
  /\ world.name = <<72, 105>>
  /\ world.spawnFlags = U32(0, 15)
  /\ Len(world.description) = 9999
  /\ position = Len(buffer)

\* The sector of the BRMP record at the cursor: its version, and where its
\* fields are if each block has the size the claim gives.
SectorVersion == I32At(position + 16)

SectorNameLength ==
  IF SectorVersion >= 1 /\ I32At(position + 20) > 0
       /\ I32At(position + 20) < 1000
    THEN I32At(position + 20)
  ELSE 0

ColorAt ==
  position + 20 + (IF SectorVersion >= 1 THEN 4 + SectorNameLength ELSE 0)

VtxAt ==
  ColorAt + 12 + (IF SectorVersion >= 2 THEN 4 ELSE 0)
    + (IF SectorVersion >= 3 THEN 4 ELSE 0)

PlnAt == VtxAt + 8 + 24 * I32At(VtxAt + 4)

EdgAt == PlnAt + 8 + 32 * I32At(PlnAt + 4)

BpoAt == EdgAt + 8 + 8 * I32At(EdgAt + 4)

\* Where VTXs is if the name of a sector of version >= 1 takes its length
\* field and as many bytes as the field says.
WholeNameVtxAt ==
  position + 20
    + (IF SectorVersion >= 1 THEN 4 + I32At(position + 20) ELSE 0)
    + 12 + (IF SectorVersion >= 2 THEN 4 ELSE 0)
    + (IF SectorVersion >= 3 THEN 4 ELSE 0)

TextureEnd(p) ==
  p + 4 + (IF I32At(p) > 0 /\ I32At(p) < 500 THEN I32At(p) ELSE 0) + 32

EdgeCountAt ==
  IF call.args.version >= 2
    THEN TextureEnd(TextureEnd(TextureEnd(12))) + 8
  ELSE 4

ShadowMapAt ==
  EdgeCountAt + 4 + 4 * I32At(EdgeCountAt)
    + (IF call.args.version >= 4
         THEN 8 + 4 * Len(TriangleVertices) + 4 * Len(TriangleElements)
       ELSE 0)

ShadowMapEnd(p) ==
  IF ChunkAt(p) = FourCC.SHMP THEN p + 8 + I32At(p + 4) ELSE p

\* C31: for a polygon record of bpoVersion < 2 no color, flags, texture slot
\* or properties byte is consumed, the polygon has color 0xFFFFFFFF and
\* flags 0, and exactly one byte is consumed after the optional shadow map;
\* for bpoVersion >= 2 the color and the flags are the two 32-bit values
\* read, and four bytes are consumed after the shadow map.
PolygonFieldsByVersion ==
  [][(/\ phase = "Call"
      /\ call.fn = "readBrushPolygon"
      /\ phase' = "Returned"
      /\ returned' # << <<>> >>)
       => LET polygon == returned'[1][1]
          IN IF call.args.version < 2
               THEN /\ polygon.color = U32(65535, 65535)
                    /\ polygon.flags = U32(0, 0)
                    /\ position' = ShadowMapEnd(ShadowMapAt) + 1
             ELSE /\ polygon.color = U32At(4)
                  /\ polygon.flags = U32At(8)
                  /\ position' = ShadowMapEnd(ShadowMapAt) + 4]_vars

\* A polygon of bpoVersion 1 with an edge and a shadow map was returned.
LegacyPolygonReturned ==
  /\ phase = "Returned"
  /\ call.fn = "readBrushPolygon"
  /\ call.args.version = 1
  /\ returned # << <<>> >>
  /\ returned[1][1].color = U32(65535, 65535)
  /\ I32At(4) = 1
  /\ ChunkAt(12) = FourCC.SHMP
  /\ position = 23

\* C32: a polygon record of bpoVersion < 4 that decodes without error is
\* kept: readBrushPolygon returns it with empty vertices and empty indices,
\* whatever the vertices of the sector, and readBrushSector appends it to the
\* polygons of its sector.
EmptyGeometryPolygonKept ==
  [][/\ (/\ phase = "Call"
         /\ call.fn = "readBrushPolygon"
         /\ call.args.version < 4
         /\ absorbed' = absorbed)
          => /\ phase' = "Returned"
             /\ returned' # << <<>> >>
             /\ returned'[1][1].vertices = <<>>
             /\ returned'[1][1].indices = <<>>
     /\ (/\ phase = "Call"
         /\ call.fn = "readBrushMip"
         /\ phase' = "Returned"
         /\ returned' # << <<>> >>
         /\ returned'[1][1].sectors # <<>>)
          => returned'[1][1].sectors[1].polygons
               = <<[vertices |-> <<>>, indices |-> <<>>,
                    color |-> U32(65535, 65535), flags |-> U32(0, 0)]>>]_vars

\* A sector of version 0 and two vertices was appended with its polygon of
\* bpoVersion 1, which has no vertex.
SectorKeepsEmptyPolygon ==
  /\ phase = "Returned"
  /\ call.fn = "readBrushMip"
  /\ returned # << <<>> >>
  /\ Len(returned[1][1].sectors) = 1
  /\ I32At(16) = 0
  /\ Len(returned[1][1].sectors[1].vertices) = 2
  /\ Len(returned[1][1].sectors[1].polygons) = 1
  /\ returned[1][1].sectors[1].polygons[1].vertices = <<>>

\* The offset where the fixed layout of the terrain at offset 0 ends.
TerrainNameEnd ==
  12 + (IF I32At(8) > 0 /\ I32At(8) < 1000 THEN I32At(8) ELSE 0)

TerrainFixedEnd ==
  LET a == TerrainNameEnd + 8
      sx == I32At(a)
      sy == I32At(a + 4)
  IN a + 8 + (IF sx > 0 /\ sy > 0 /\ sx < 10000 /\ sy < 10000
                THEN 3 * sx * sy ELSE 0)

\* The offsets at or after the fixed layout whose four bytes end the byte-step.
TerrainStops ==
  {p \in TerrainFixedEnd..(Len(buffer) - 4) : ChunkAt(p) \in TerrainMarkers}

FirstTerrainStop == CHOOSE p \in TerrainStops : \A q \in TerrainStops : p <= q

\* C33: skipSingleTerrain, its fixed layout read, returns with the cursor at
\* the first offset whose four bytes are TREN, TRRN, EOTA or DPOS, right after
\* them when they are TREN; when there is no such offset it returns all the
\* same, its last event the warn of its catch block and one exception
\* absorbed.  readBrushes, whatever the terrain archive holds, reaches its
\* scan for WSTA at line 376.
TerrainByteStep ==
  [][/\ (/\ phase = "Call" /\ call.fn = "skipSingleTerrain"
         /\ Len(buffer) >= TerrainNameEnd + 16)
          => /\ phase' = "Returned"
             /\ IF TerrainStops # {}
                  THEN /\ absorbed' = absorbed
                       /\ log' = log
                       /\ position' = FirstTerrainStop
                            + (IF ChunkAt(FirstTerrainStop) = FourCC.TREN
                                 THEN 4 ELSE 0)
                  ELSE /\ absorbed' = absorbed + 1
                       /\ Len(log') = Len(log) + 1
                       /\ log'[Len(log')].level = "warn"
                       /\ log'[Len(log')].text = "Could not skip single terrain"
     /\ (/\ phase = "Call" /\ call.fn = "readBrushes" /\ call.line = 371
         /\ StartsWith(FourCC.TRAR))
          => /\ phase' = "Running"
             /\ (Len(buffer) > 8 /\ I32At(4) > 0
                   /\ ~Occurs(FourCC.TREN, 8) /\ ~Occurs(FourCC.EOTA, 8)
                   => \E i \in 1..Len(log') :
                        /\ log'[i].level = "warn"
                        /\ log'[i].text = "Could not skip single terrain")]_vars

\* A terrain with six bytes after its maps and no chunk id: the byte-step
\* has gone over three of them and the failure is absorbed.
TerrainWithoutStopAbsorbed ==
  /\ phase = "Returned"
  /\ call.fn = "skipSingleTerrain"
  /\ buffer = TerrainRecord(0, 1, 1) \o <<84, 82, 69>> \o SubSeq(FourCC.EOTA, 1, 3)
  /\ position = Len(buffer) - 3
  /\ absorbed = 1
  /\ Logged("Could not skip single terrain")

\* The count of the loop whose for statement is at each line.
CountOfLoop ==
  [l \in {401, 441, 476, 521, 532, 541, 552, 601, 610, 615, 706, 785} |->
     CASE l = 401 -> "brushCount"
       [] l = 441 -> "mipCount"
       [] l = 476 -> "sectorCount"
       [] l = 521 -> "vertexCount"
       [] l = 532 -> "planeCount"
       [] l = 541 -> "edgeCount"
       [] l = 552 -> "polygonCount"
       [] l = 601 -> "edgeCount"
       [] l = 610 -> "vtxCount"
       [] l = 615 -> "elemCount"
       [] l = 706 -> "terrainCount"
       [] l = 785 -> "fileNameCount"]

\* At the head of a count-driven loop its index is from 0 to the count, and
\* is 0 when the count is not positive.
CountBounded ==
  (call.pc \in DOMAIN CountOfLoop /\ ~call.thrown)
    => /\ call.loc.i >= 0
       /\ call.loc.i <= call.loc[CountOfLoop[call.pc]] \/ call.loc.i = 0

\* An iteration of a scan loop that is followed by another leaves the cursor
\* one byte further: findChunkInFile sets it to i and adds 1 to i,
\* skipToWEND reads four bytes and seeks three back, the byte-step of
\* skipSingleTerrain reads one byte after a peek that leaves the cursor.
ScanAdvances ==
  /\ (/\ call.fn = "findChunkInFile" /\ call.pc = 764 /\ ~call.thrown
      /\ call'.fn = "findChunkInFile" /\ ~call'.thrown)
       => /\ call'.loc.i = call.loc.i + 1
          /\ position' = call.loc.i
          /\ call.loc.i >= call.loc.startPos
  /\ (/\ call.fn = "skipToWEND" /\ call.pc = 896 /\ ~call.thrown
      /\ call'.pc = 908 /\ ~call'.thrown)
       => position' = position + 4
  /\ (/\ call.fn = "skipToWEND" /\ call.pc = 908 /\ ~call.thrown
      /\ call'.pc = 896)
       => position' = position - 3
  /\ (/\ call.fn = "skipSingleTerrain" /\ call.pc = 743 /\ ~call.thrown
      /\ call'.pc = 745)
       => position' = position
  /\ (/\ call.fn = "skipSingleTerrain" /\ call.pc = 745 /\ ~call.thrown
      /\ call'.pc = 743)
       => position' = position + 1

\* A step of parse() leaves the parser in another state than it found it.
StepChangesState ==
  phase = "Stepping"
    => LET r == Step(Machine)
       IN <<r.pos, r.world, r.log, r.lo, r.hi, r.scan, r.exc, r.caught, r.fn,
            r.pc, r.loc, r.stack, r.val, r.thrown>>
            # <<position, world, log, readLo, readHi, scanStart, raised,
                absorbed, call.fn, call.pc, call.loc, call.stack, call.val,
                call.thrown>>

\* C34: parse() ends, in Complete or in Failed, for every buffer; an
\* iteration of a scan loop (findChunkInFile, skipToWEND, the byte-step of
\* skipSingleTerrain) leaves the cursor one byte further than the one before,
\* and the index of a count-driven loop never exceeds its count, nor 0 when
\* the count is not positive.
ParseTerminates ==
  /\ <>(phase \in {"Complete", "Failed"})
  /\ [][ScanAdvances]_vars
  /\ []CountBounded
  /\ []StepChangesState

\* A parse that has ended after its scan for WEND went over bytes that are
\* not WEND.
EndedAfterScan ==
  /\ phase = "Complete"
  /\ \E i \in 1..Len(log) :
       /\ log[i].text = "Found WEND at position"
       /\ log[i].args # <<>>
       /\ log[i].args[1] > scanStart + 8

\* The call is a read of the cursor.
StreamRead ==
  phase = "Call"
    /\ call.fn \in DOMAIN Width
                     \cup {"readString", "readChunkID", "peekChunkID",
                           "expectChunkID"}

\* The length a read of the cursor asks for.
Asked ==
  IF call.fn \in DOMAIN Width THEN Width[call.fn]
  ELSE IF call.fn = "readString" THEN call.length ELSE 4

\* C35: a read of the cursor that fails leaves the position as it was, but
\* for expectChunkID, which, when it has read a chunk id that is not the one
\* expected, fails with the position 4 further; peekChunkID leaves the
\* position as it was when it succeeds too, and every other read that
\* succeeds leaves it further by the length read.
FailedReadKeepsPosition ==
  [][StreamRead
       => /\ phase' \in {"Threw", "Returned"}
          /\ (phase' = "Threw" /\ raised'.kind # "UnexpectedChunk")
               => position' = position
          /\ (phase' = "Threw" /\ raised'.kind = "UnexpectedChunk")
               => /\ call.fn = "expectChunkID"
                  /\ position' = position + 4
          /\ (phase' = "Returned")
               => position' = IF call.fn = "peekChunkID" THEN position
                              ELSE position + Asked
          /\ (phase' = "Threw" /\ call.fn # "expectChunkID")
               => position' = position]_vars

\* readInt32 has failed with two bytes left after the cursor.
ShortReadFailed ==
  /\ phase = "Threw"
  /\ call.fn = "readInt32"
  /\ Len(buffer) = 5
  /\ position = 3

\* C36: when readBrushes has returned without an exception the four bytes at
\* the cursor are WSTA; readState then peeks neither DIMP nor DPOS, so that
\* neither of its two dictionary blocks is entered, and its expectChunkID
\* of WSTA does not fail.
StateSectionStartsAtWsta ==
  /\ (call.fn = "parse" /\ call.pc \in {286, 287} /\ ~call.thrown)
       => InBounds(position, 4) /\ ChunkAt(position) = FourCC.WSTA
  /\ (call.fn = "readState" /\ call.pc \in {846, 847, 856, 857, 867}
        /\ ~call.thrown)
       => InBounds(position, 4) /\ ChunkAt(position) = FourCC.WSTA
  /\ (call.fn = "readState" /\ call.pc \in {847, 857} /\ ~call.thrown)
       => call.val = FourCC.WSTA
  /\ ~(call.fn = "readState" /\ call.pc \in {862, 864})
  /\ ~Logged("Found DIMP (Dictionary Import) before WSTA, skipping")
  /\ ~Logged("Found DPOS (Dictionary Position) before WSTA")
  /\ ~(raised.kind = "UnexpectedChunk" /\ raised.expected = FourCC.WSTA)

\* readState is about to expect WSTA, which the scan of readBrushes found
\* after the offset where it started.
StateReadAfterScan ==
  /\ call.fn = "readState"
  /\ call.pc = 867
  /\ ~call.thrown
  /\ scanStart >= 0
  /\ position > scanStart

\* C37: in every mesh that BrushGeometry makes, each element of the index is
\* at least 0 and less than the number of vertices pushed to the position
\* attribute, which is the number of vertices of the polygon.
MeshIndicesInRange ==
  phase = "Rendered"
    => \A k \in 1..Len(returned[1]) :
         /\ Len(returned[1][k].position) = 3 * Len(Drawable[k].vertices)
         /\ \A j \in 1..Len(returned[1][k].index) :
              /\ returned[1][k].index[j] >= 0
              /\ returned[1][k].index[j] < Len(Drawable[k].vertices)

\* The activations of the parser: the one that runs and its callers.
Frames ==
  Append(call.stack, [fn |-> call.fn, pc |-> call.pc, loc |-> call.loc])

Max0(n) == IF n > 0 THEN n ELSE 0

\* Every collection that is being filled holds at most as many elements as
\* its count, and none when the count is not positive.
CollectionsBounded ==
  \A k \in 1..Len(Frames) :
    LET f == Frames[k]
    IN /\ f.fn = "readBrushArchive"
            => Len(world.brushes) <= Max0(f.loc.brushCount)
       /\ f.fn = "readBrush3D" => Len(f.loc.mips) <= Max0(f.loc.mipCount)
       /\ f.fn = "readBrushMip"
            => Len(f.loc.sectors) <= Max0(f.loc.sectorCount)
       /\ f.fn = "readBrushSector"
            => /\ Len(f.loc.polygons) <= Max0(f.loc.polygonCount)
               /\ Len(f.loc.vertices) <= Max0(f.loc.vertexCount)

\* The relation between the vertices of a sector and its vertex count, once
\* the loop over the vertices is over: a sector that is appended has gone
\* through line 532.
VerticesAfterLoop(counted(_)) ==
  \A k \in 1..Len(Frames) :
    (Frames[k].fn = "readBrushSector" /\ Frames[k].pc >= 532)
      => Len(Frames[k].loc.vertices) = counted(Frames[k].loc.vertexCount)

\* The lines where an element that was decoded is appended, the loop they
\* are in and the collection.
Appends ==
  {[fn |-> "readBrush3D", at |-> 443, head |-> 441, to |-> "mips"],
   [fn |-> "readBrushMip", at |-> 478, head |-> 476, to |-> "sectors"],
   [fn |-> "readBrushSector", at |-> 554, head |-> 552, to |-> "polygons"]}

\* An element that failed (null) is not appended, one that was decoded is,
\* and the loop goes on with the next index.
FailedElementOmitted ==
  /\ (call.fn = "readBrushArchive" /\ call.pc = 404 /\ ~call.thrown)
       => /\ Len(world'.brushes)
               = Len(world.brushes) + (IF call.val = <<>> THEN 0 ELSE 1)
          /\ call'.pc = 401
          /\ call'.loc.i = call.loc.i + 1
  /\ \A a \in Appends :
       (call.fn = a.fn /\ call.pc = a.at /\ ~call.thrown)
         => /\ Len(call'.loc[a.to])
                 = Len(call.loc[a.to]) + (IF call.val = <<>> THEN 0 ELSE 1)
            /\ call'.pc = a.head
            /\ call'.loc.i = call.loc.i + 1

Same(n) == n

\* C38 as stated: the brushes of the world, the mips of a brush, the sectors
\* of a mip and the polygons of a sector are at most max(0, count), the
\* vertices of a sector that is appended are exactly vertexCount, and a failed
\* element is left out while the loop goes on with the next index.
CollectionsWithinCounts ==
  /\ []CollectionsBounded
  /\ []VerticesAfterLoop(Same)
  /\ [][FailedElementOmitted]_vars

\* C38, amended: the same, the vertices of a sector that is appended being
\* exactly max(0, vertexCount).
CollectionsWithinCountsFromZero ==
  /\ []CollectionsBounded
  /\ []VerticesAfterLoop(Max0)
  /\ [][FailedElementOmitted]_vars

\* A mip of two sectors has gone over both: the first failed and is left
\* out, the second, of vertex count -1, is appended with no vertex.
SectorAfterFailedOne ==
  /\ call.fn = "readBrushMip"
  /\ call.pc = 476
  /\ call.loc.sectorCount = 2
  /\ call.loc.i = 2
  /\ Len(call.loc.sectors) = 1
  /\ call.loc.sectors[1].vertices = <<>>
  /\ I32At(position - 32) = -1

\* The offset where the engine version header ends: 0 when the buffer does
\* not start with BUIV, else after the build, or after VERC, its length and
\* the version string that was read (none when the length is outside
\* 1..999 or the buffer does not hold as many bytes).
RootPosition ==
  IF ~StartsWith(FourCC.BUIV) THEN 0
  ELSE IF ChunkAt(8) # FourCC.VERC THEN 8
  ELSE IF I32At(12) > 0 /\ I32At(12) < 1000 /\ 16 + I32At(12) <= Len(buffer)
    THEN 16 + I32At(12)
  ELSE 16

\* C39: parse() returns only from its last section and only when WRLD is at
\* the offset where the engine version header ends, WSTA occurs after it,
\* and WEND occurs at or after the offset where the state section has left the
\* cursor; the cursor is then right after the first such WEND.
CompleteOnlyWhenFramed ==
  [][phase' = "Complete"
       => /\ phase = "End"
          /\ InBounds(RootPosition, 4)
          /\ ChunkAt(RootPosition) = FourCC.WRLD
          /\ Occurs(FourCC.WSTA, RootPosition + 4)
          /\ position >= RootPosition + 8
          /\ Occurs(FourCC.WEND, position)
          /\ position' = FirstAt(FourCC.WEND, position) + 4]_vars

\* A parse has returned from a buffer whose header holds a version string
\* and whose WEND is one byte after the state section.
CompleteAfterHeaderAndGap ==
  /\ phase = "Complete"
  /\ RootPosition = 18
  /\ position = Len(buffer)
  /\ ByteAt(position - 5) = 120

====
